---- MODULE Spec2Model ----
(***************************************************************************)
(* Ingestion-and-fan-out core of the seatag telemetry backend.             *)
(*                                                                         *)
(* The repository holds several deployment generations of the same server. *)
(* The model picks one generation at start-up (variable `variant`):        *)
(*   "memSingle"   in-memory store, single device  (src/unnamed/part_000)  *)
(*   "memMulti"    in-memory store, multi device   (src/unnamed/part_001)  *)
(*   "mongoMulti"  durable store, multi device                             *)
(*                                    (src/backend/server-mongodb.js:1-332)*)
(*   "mongoSingle" durable store, single device    (src/server.js:1-207)   *)
(*                                                                         *)
(* A JavaScript string is a sequence of lexical tokens; "|" and "," are    *)
(* tokens of their own, so that split() is computed and not assumed.       *)
(* Node runs each handler to its first await without interleaving: one     *)
(* action is one such run-to-completion section.                           *)
(***************************************************************************)
EXTENDS Integers, Sequences, FiniteSets, TLC

(* ------------------------------- bounds -------------------------------- *)
\* number of POST /api/alerts requests of one run
MaxReq == 2
\* last value of the millisecond clock
MaxTime == 2
\* number of WebSocket connections of one run
MaxClients == 2
\* messages a connection holds before a further command is relayed to it
MaxInbox == 2

\* number of times the live-map page is mounted in one run
MaxPages == 2
\* number of WebSocket objects the browser creates in one run
MaxSockets == 3

Requests == 1..MaxReq
ClientIds == 1..MaxClients
PageIds == 1..MaxPages

(* ------------------------- JavaScript values --------------------------- *)
\* the value `undefined` of a string-valued place
UNDEF == <<"<undefined>">>
\* the empty string
EMPTY == <<>>
\* parseFloat's failure value
NaN == "NaN"

\* a truthy value that is not a string and has no split method, such as
\* the number in { "payload": 42 }
NotAString == <<"<number>">>

\* JavaScript truthiness of a string-or-undefined value
Truthy(s) == s # UNDEF /\ s # EMPTY

\* the value has the methods of String.prototype
IsString(s) == s # UNDEF /\ s # NotAString

\* a || b
Or(a, b) == IF Truthy(a) THEN a ELSE b

\* arr[i] of a JavaScript array, 0-based: undefined past the end
At(arr, i) == IF i + 1 <= Len(arr) THEN arr[i + 1] ELSE UNDEF

\* tokens that are numeric literals
NumericTokens == {"0", "7", "120", "-80", "9.5", "14.6", "120.9"}

\* parseFloat(s): the leading numeric literal of s, NaN when there is none
\* (parseFloat(undefined) is NaN as well)
ParseFloat(s) ==
    IF s # UNDEF /\ s # EMPTY /\ s[1] \in NumericTokens THEN s[1] ELSE NaN

RECURSIVE SplitFrom(_, _, _, _)
SplitFrom(s, delim, i, cur) ==
    IF i > Len(s) THEN <<cur>>
    ELSE IF s[i] = delim THEN <<cur>> \o SplitFrom(s, delim, i + 1, <<>>)
    ELSE SplitFrom(s, delim, i + 1, Append(cur, s[i]))

\* s.split(delim): always at least one part; "".split gives [""]
Split(s, delim) == SplitFrom(s, delim, 1, <<>>)

\* s.includes(tok)
Includes(s, tok) == \E i \in 1..Len(s) : s[i] = tok

(* ------------------------------ inputs --------------------------------- *)
\* scenario A of the specification
PayloadEmergency ==
    <<"DEV1", "|", "EMERGENCY", "|", "14.6", "|", "120.9", "|", "0", "km/h",
      "|", "7", "sat", "|", "120", ",", "-80", ",", "9.5">>
\* scenario B
PayloadStatus ==
    <<"DEV1", "|", "STATUS", "|", "14.6", "|", "120.9", "|", "0", "km/h",
      "|", "7", "sat", "|", "120", ",", "-80", ",", "9.5">>
\* non-numeric latitude, empty speed, empty trailing group
PayloadNaN ==
    <<"DEV2", "|", "NORMAL", "|", "abc", "|", "120.9", "|", "|", "7", "sat",
      "|">>
\* a mode outside EMERGENCY/NORMAL/STATUS, empty first sub-part of the group
PayloadPing ==
    <<"DEV2", "|", "PING", "|", "14.6", "|", "120.9", "|", "0", "km/h", "|",
      "7", "sat", "|", ",", "-80">>
\* scenario C
PayloadTwoFields == <<"DEV1", "|", "STATUS">>
PayloadOneField == <<"DEV1">>
\* the legacy single-device wire format
PayloadLegacy ==
    <<"EMERGENCY", "|", "14.6", "|", "120.9", "|", "0", "km/h", "|", "7",
      "sat", "|", "120", ",", "-80", ",", "9.5">>

Payloads ==
    {PayloadEmergency, PayloadStatus, PayloadNaN, PayloadPing,
     PayloadTwoFields, PayloadOneField, PayloadLegacy}

\* req.body of one submission: status and payload, each a string, the empty
\* string, or missing
Body(status, payload) == [status |-> status, payload |-> payload]

\* submissions sent to a multi-device generation; the status field differs
\* from the mode inside the payload wherever both are present
MultiBodies ==
    {Body(<<"STATUS">>, PayloadEmergency), Body(<<"EMERGENCY">>, PayloadStatus),
     Body(<<"STATUS">>, PayloadNaN), Body(<<"STATUS">>, PayloadPing),
     Body(<<"STATUS">>, PayloadTwoFields), Body(<<"STATUS">>, PayloadOneField),
     Body(<<"STATUS">>, EMPTY), Body(<<"STATUS">>, UNDEF),
     Body(UNDEF, PayloadEmergency), Body(EMPTY, PayloadStatus)}

\* submissions sent to a single-device generation (PayloadEmergency has a
\* non-numeric second field there)
SingleBodies ==
    {Body(<<"EMERGENCY">>, PayloadLegacy), Body(<<"STATUS">>, PayloadLegacy),
     Body(<<"PING">>, PayloadLegacy), Body(UNDEF, PayloadLegacy),
     Body(<<"EMERGENCY">>, PayloadEmergency),
     Body(<<"EMERGENCY">>, PayloadTwoFields), Body(<<"STATUS">>, EMPTY),
     Body(<<"EMERGENCY">>, UNDEF), Body(UNDEF, UNDEF)}

\* the submissions that reach the subscribers, for the fan-out runs
MultiFanoutBodies ==
    {Body(<<"STATUS">>, PayloadEmergency), Body(<<"EMERGENCY">>, PayloadStatus),
     Body(<<"STATUS">>, PayloadPing), Body(<<"STATUS">>, PayloadTwoFields)}
SingleFanoutBodies ==
    {Body(<<"EMERGENCY">>, PayloadLegacy), Body(<<"STATUS">>, PayloadLegacy),
     Body(<<"EMERGENCY">>, PayloadTwoFields)}

(* ------------------------------ records -------------------------------- *)
\* a property that the object does not have
NoNum == "undefined"

\* One shape for every telemetry object of the program (alertData,
\* statusData, latestStatus, a stored document); a property the JavaScript
\* object lacks is UNDEF, NoNum or, for _id, 0.
Record(id, deviceId, deviceName, status, latitude, longitude, speed, satellites, uptime, rssi, snr, timestamp, rawPayload, payload) ==
    [_id |-> id, deviceId |-> deviceId, deviceName |-> deviceName,
     status |-> status, latitude |-> latitude, longitude |-> longitude,
     speed |-> speed, satellites |-> satellites, uptime |-> uptime,
     rssi |-> rssi, snr |-> snr, timestamp |-> timestamp,
     rawPayload |-> rawPayload, payload |-> payload]

\* no entry (Map.get gives undefined)
NoRec ==
    Record(0, UNDEF, UNDEF, UNDEF, NoNum, NoNum, UNDEF, UNDEF, UNDEF, UNDEF,
           UNDEF, 0, UNDEF, UNDEF)

\* let latestStatus = { status: 'WAITING', payload: 'Waiting for data...',
\*                      timestamp: Date.now() }
WaitingStatus(t) ==
    Record(0, UNDEF, UNDEF, <<"WAITING">>, NoNum, NoNum, UNDEF, UNDEF, UNDEF,
           UNDEF, UNDEF, t, UNDEF, <<"Waiting for data...">>)

\* a variant of the latest-state record without the payload property
WithoutPayload(alertData, payload) == alertData

\* { ...alertData, payload: payload }
WithPayload(alertData, payload) == [alertData EXCEPT !.payload = payload]

(* -------------------------- payload decoding --------------------------- *)
\* a variant of the trailing group that takes the sub-parts as they are
GroupMultiRaw(g) ==
    IF Truthy(g)
    THEN LET uptimeParts == Split(g, ",")
         IN [uptime |-> At(uptimeParts, 0),
             rssi |-> At(uptimeParts, 1),
             snr |-> At(uptimeParts, 2)]
    ELSE [uptime |-> <<"0">>, rssi |-> EMPTY, snr |-> EMPTY]

\* the trailing group of the multi-device format:
\*   let uptime = '0', rssi = '', snr = '';
\*   if (parts[6]) { uptimeParts = parts[6].split(','); ... }
GroupMulti(g) ==
    IF Truthy(g)
    THEN LET uptimeParts == Split(g, ",")
         IN [uptime |-> Or(At(uptimeParts, 0), <<"0">>),
             rssi |-> Or(At(uptimeParts, 1), EMPTY),
             snr |-> Or(At(uptimeParts, 2), EMPTY)]
    ELSE [uptime |-> <<"0">>, rssi |-> EMPTY, snr |-> EMPTY]

\* the trailing group of the single-device format:
\*   let uptime = parts[5] || '0', rssi = '', snr = '';
\*   if (parts[5] && parts[5].includes(',')) { ... }
GroupSingle(g) ==
    IF Truthy(g) /\ Includes(g, ",")
    THEN LET uptimeParts == Split(g, ",")
         IN [uptime |-> Or(At(uptimeParts, 0), <<"0">>),
             rssi |-> Or(At(uptimeParts, 1), EMPTY),
             snr |-> Or(At(uptimeParts, 2), EMPTY)]
    ELSE [uptime |-> Or(g, <<"0">>), rssi |-> EMPTY, snr |-> EMPTY]

\* a variant of alertData that reads the fields at the positions of the
\* single-device format
AlertDataMultiLegacy(id, parts, payload, t) ==
    LET g == GroupMulti(At(parts, 5))
    IN Record(id, At(parts, 0), At(parts, 0), At(parts, 0),
              ParseFloat(At(parts, 1)), ParseFloat(At(parts, 2)),
              Or(At(parts, 3), <<"0", "km/h">>),
              Or(At(parts, 4), <<"0", "sat">>),
              g.uptime, g.rssi, g.snr, t, payload, UNDEF)

\* alertData of the multi-device generations (id = 0: the store assigns it)
AlertDataMulti(id, parts, payload, t) ==
    LET g == GroupMulti(At(parts, 6))
    IN Record(id, At(parts, 0), At(parts, 0), At(parts, 1),
              ParseFloat(At(parts, 2)), ParseFloat(At(parts, 3)),
              Or(At(parts, 4), <<"0", "km/h">>),
              Or(At(parts, 5), <<"0", "sat">>),
              g.uptime, g.rssi, g.snr, t, payload, UNDEF)

\* statusData of the multi-device generations: no _id, no rawPayload
StatusDataMulti(parts, payload, t) ==
    LET g == GroupMulti(At(parts, 6))
    IN Record(0, At(parts, 0), At(parts, 0), At(parts, 1),
              ParseFloat(At(parts, 2)), ParseFloat(At(parts, 3)),
              Or(At(parts, 4), <<"0", "km/h">>),
              Or(At(parts, 5), <<"0", "sat">>),
              g.uptime, g.rssi, g.snr, t, UNDEF, payload)

\* alertData of the single-device generations: the mode is req.body.status
AlertDataSingle(id, status, parts, payload, t) ==
    LET g == GroupSingle(At(parts, 5))
    IN Record(id, UNDEF, UNDEF, status,
              ParseFloat(At(parts, 1)), ParseFloat(At(parts, 2)),
              Or(At(parts, 3), <<"0", "km/h">>),
              Or(At(parts, 4), <<"0", "sat">>),
              g.uptime, g.rssi, g.snr, t, payload, UNDEF)

\* a variant of the persistence test that persists every mode
PersistEveryMode(mode) == TRUE

\* if (actualStatus === 'EMERGENCY' || actualStatus === 'NORMAL')
IsPersistedMode(mode) == mode = <<"EMERGENCY">> \/ mode = <<"NORMAL">>

(* --------------------------- request handling -------------------------- *)
\* the implicit key of `let latestStatus` in the single-device generations
GLOBAL == <<"latestStatus">>

\* every value parts[0] can take, and the keys of the Device State Table
DeviceIds == {At(Split(p, "|"), 0) : p \in Payloads}
Keys == DeviceIds \cup {GLOBAL}

\* What one POST /api/alerts decides before it touches any state.
\*   kind "reject": res.status(400); "throw": an exception reaches a catch
\*   that answers 500 (the handler's own, or Express's around a synchronous
\*   handler); "unhandled": an exception leaves an async handler;
\*   "accept": upsert `latest` under `key`, append `alertData` when `persist`.
Reject(message) ==
    [kind |-> "reject", code |-> 400, message |-> message, key |-> GLOBAL,
     latest |-> NoRec, alertData |-> NoRec, persist |-> FALSE,
     usesId |-> FALSE]

Throw(message) ==
    [kind |-> "throw", code |-> 500, message |-> message, key |-> GLOBAL,
     latest |-> NoRec, alertData |-> NoRec, persist |-> FALSE,
     usesId |-> FALSE]

\* an exception leaves an async handler: the promise Express got from it
\* rejects and nothing in the program handles the rejection
Unhandled(message) ==
    [kind |-> "unhandled", code |-> 500, message |-> message, key |-> GLOBAL,
     latest |-> NoRec, alertData |-> NoRec, persist |-> FALSE,
     usesId |-> FALSE]

Accept(message, key, latest, alertData, persist, usesId) ==
    [kind |-> "accept", code |-> 200, message |-> message, key |-> key,
     latest |-> latest, alertData |-> alertData, persist |-> persist,
     usesId |-> usesId]

\* 'Alert received' + (mode is EMERGENCY or NORMAL ? ' and saved' : '')
ReceivedMessage(mode) ==
    IF IsPersistedMode(mode) THEN "Alert received and saved"
    ELSE "Alert received"

\* if (!status || !payload) return res.status(400)...
MissingField(status, payload) == ~Truthy(status) \/ ~Truthy(payload)

\* a variant of the multi-device handler that takes a STATUS message with
\* any number of fields
PostMultiStatusPing(status, payload, t, id) ==
    IF MissingField(status, payload) THEN Reject("Invalid payload")
    ELSE IF ~IsString(payload) THEN Throw("Internal server error")
    ELSE LET parts == Split(payload, "|")
             deviceId == At(parts, 0)
             actualStatus == At(parts, 1)
         IN IF Len(parts) < 2
            THEN Reject("Invalid payload format - missing device ID")
            ELSE IF actualStatus = <<"STATUS">>
            THEN Accept("Status updated", deviceId,
                        StatusDataMulti(parts, payload, t), NoRec, FALSE,
                        FALSE)
            ELSE IF Len(parts) >= 7
            THEN LET alertData == AlertDataMulti(id, parts, payload, t)
                 IN Accept(ReceivedMessage(actualStatus), deviceId,
                           WithPayload(alertData, payload), alertData,
                           IsPersistedMode(actualStatus), TRUE)
            ELSE Reject("Invalid payload format - insufficient data")

\* a variant of the multi-device handler that persists by the status field
\* of the body
PostMultiByStatus(status, payload, t, id) ==
    IF MissingField(status, payload) THEN Reject("Invalid payload")
    ELSE IF ~IsString(payload) THEN Throw("Internal server error")
    ELSE LET parts == Split(payload, "|")
             deviceId == At(parts, 0)
             actualStatus == At(parts, 1)
         IN IF Len(parts) < 2
            THEN Reject("Invalid payload format - missing device ID")
            ELSE IF actualStatus = <<"STATUS">> /\ Len(parts) >= 7
            THEN Accept("Status updated", deviceId,
                        StatusDataMulti(parts, payload, t), NoRec, FALSE,
                        FALSE)
            ELSE IF Len(parts) >= 7
            THEN LET alertData == AlertDataMulti(id, parts, payload, t)
                 IN Accept(ReceivedMessage(actualStatus), deviceId,
                           WithPayload(alertData, payload), alertData,
                           IsPersistedMode(status), TRUE)
            ELSE Reject("Invalid payload format - insufficient data")

\* the multi-device handler; id is the _id given to alertData (0: none)
PostMulti(status, payload, t, id) ==
    IF MissingField(status, payload) THEN Reject("Invalid payload")
    ELSE IF ~IsString(payload) THEN Throw("Internal server error")
    ELSE LET parts == Split(payload, "|")
             deviceId == At(parts, 0)
             actualStatus == At(parts, 1)
         IN IF Len(parts) < 2
            THEN Reject("Invalid payload format - missing device ID")
            ELSE IF actualStatus = <<"STATUS">> /\ Len(parts) >= 7
            THEN Accept("Status updated", deviceId,
                        StatusDataMulti(parts, payload, t), NoRec, FALSE,
                        FALSE)
            ELSE IF Len(parts) >= 7
            THEN LET alertData == AlertDataMulti(id, parts, payload, t)
                 IN Accept(ReceivedMessage(actualStatus), deviceId,
                           WithPayload(alertData, payload), alertData,
                           IsPersistedMode(actualStatus), TRUE)
            ELSE Reject("Invalid payload format - insufficient data")

\* the in-memory single-device handler: no check of status and payload;
\* payload.split of a missing payload, or of one that is not a string,
\* throws a TypeError
PostMemSingle(status, payload, t, id) ==
    IF ~IsString(payload) THEN Throw("TypeError")
    ELSE LET parts == Split(payload, "|")
         IN IF Len(parts) >= 3
            THEN LET alertData == AlertDataSingle(id, status, parts, payload, t)
                 IN Accept(ReceivedMessage(status), GLOBAL,
                           WithPayload(alertData, payload), alertData,
                           IsPersistedMode(status), TRUE)
            ELSE Reject("Invalid payload format")

\* the durable single-device handler; payload.split stands outside its try
PostMongoSingle(status, payload, t) ==
    IF MissingField(status, payload) THEN Reject("Invalid payload")
    ELSE IF ~IsString(payload) THEN Unhandled("TypeError")
    ELSE LET parts == Split(payload, "|")
         IN IF Len(parts) < 3 THEN Reject("Invalid format")
            ELSE LET alertData == AlertDataSingle(0, status, parts, payload, t)
                 IN Accept("Alert processed", GLOBAL,
                           WithPayload(alertData, payload), alertData,
                           IsPersistedMode(status), FALSE)

\* alertData of the durable single-device generation that knows STATUS:
\* the trailing group is split whenever it is present
AlertDataMongoStatus(status, parts, payload, t) ==
    LET g == GroupMulti(At(parts, 5))
    IN Record(0, UNDEF, UNDEF, status,
              ParseFloat(At(parts, 1)), ParseFloat(At(parts, 2)),
              Or(At(parts, 3), <<"0", "km/h">>),
              Or(At(parts, 4), <<"0", "sat">>),
              g.uptime, g.rssi, g.snr, t, payload, UNDEF)

\* latestStatus = { status, payload, timestamp: Date.now() }
StatusOnly(status, payload, t) ==
    Record(0, UNDEF, UNDEF, status, NoNum, NoNum, UNDEF, UNDEF, UNDEF, UNDEF,
           UNDEF, t, UNDEF, payload)

\* a variant of that handler which decodes a STATUS submission like every
\* other submission
PostMongoStatusDecoded(status, payload, t) ==
    IF MissingField(status, payload) THEN Reject("Invalid payload")
    ELSE IF ~IsString(payload) THEN Unhandled("TypeError")
    ELSE LET parts == Split(payload, "|")
         IN IF Len(parts) >= 3
            THEN LET alertData ==
                        AlertDataMongoStatus(status, parts, payload, t)
                 IN Accept(ReceivedMessage(status), GLOBAL,
                           WithPayload(alertData, payload), alertData,
                           IsPersistedMode(status), FALSE)
            ELSE Reject("Invalid payload format")

\* the durable single-device handler that takes a STATUS submission with
\* any payload; it has no try around its decoding
PostMongoStatus(status, payload, t) ==
    IF MissingField(status, payload) THEN Reject("Invalid payload")
    ELSE IF ~IsString(payload) THEN Unhandled("TypeError")
    ELSE LET parts == Split(payload, "|")
         IN IF status = <<"STATUS">>
            THEN Accept("Status updated", GLOBAL,
                        StatusOnly(status, payload, t), NoRec, FALSE, FALSE)
            ELSE IF Len(parts) >= 3
            THEN LET alertData ==
                        AlertDataMongoStatus(status, parts, payload, t)
                 IN Accept(ReceivedMessage(status), GLOBAL,
                           WithPayload(alertData, payload), alertData,
                           IsPersistedMode(status), FALSE)
            ELSE Reject("Invalid payload format")

\* the handler of the running generation
PostPlan(v, status, payload, t, counter) ==
    CASE v = "memMulti" -> PostMulti(status, payload, t, counter)
      [] v = "mongoMulti" ->
            [PostMulti(status, payload, t, 0) EXCEPT !.usesId = FALSE]
      [] v = "memSingle" -> PostMemSingle(status, payload, t, counter)
      [] v = "mongoSingle" -> PostMongoSingle(status, payload, t)
      [] v = "mongoStatus" -> PostMongoStatus(status, payload, t)

(* -------------------------------- state -------------------------------- *)
VARIABLES
    variant,               \* the deployment generation that is running
    now,                   \* Date.now()
    latestStatusByDevice,  \* Device State Table: key -> record, NoRec if none
    keyOrder,              \* insertion order of the Map's keys
    locations,             \* Event Log Store: the array / the collection
    locationIdCounter,     \* let locationIdCounter = 1 (in-memory stores)
    storeIds,              \* next _id the durable store assigns
    clients,               \* the WebSocket connections, wss.clients
    reqs,                  \* the POST /api/alerts requests
    seed,                  \* mongoose.connect(...).then(loadLatestStatus)
    admin,                 \* the latest request to the other HTTP routes
    pages,                 \* the instances of the live-map page (browser)
    sockets                \* the WebSocket objects these instances created

vars ==
    <<variant, now, latestStatusByDevice, keyOrder, locations,
      locationIdCounter, storeIds, clients, reqs, seed, admin, pages,
      sockets>>

Variants == {"memSingle", "memMulti", "mongoMulti", "mongoSingle"}
MemVariants == {"memSingle", "memMulti"}
MongoVariants == {"mongoMulti", "mongoSingle", "mongoStatus"}
MultiVariants == {"memMulti", "mongoMulti"}
SingleVariants == {"memSingle", "mongoSingle", "mongoStatus"}
\* with the durable single-device generation that knows STATUS
WideVariants == Variants \cup {"mongoStatus"}

\* a document a previous run of the durable multi-device server stored
OldEventMulti ==
    [AlertDataMulti(0, Split(PayloadEmergency, "|"), PayloadEmergency, 0)
        EXCEPT !._id = 1]
\* a document a previous run of the durable single-device server stored
OldEventSingle ==
    [AlertDataSingle(0, <<"EMERGENCY">>, Split(PayloadLegacy, "|"),
                     PayloadLegacy, 0) EXCEPT !._id = 1]

\* An instance of the live-map page: whether it is mounted, wsRef.current
\* (0: null), the pending setTimeout(connectWebSocket, 3000) callbacks,
\* previousStatusRef.current, the status of each device's marker, and
\* whether its latest message raised the notification and the alarm.
\* the latest message of a page that has received none
NoMessage ==
    [deviceId |-> UNDEF, deviceName |-> UNDEF, status |-> UNDEF,
     latitude |-> NoNum, longitude |-> NoNum]

\* a page instance that was never mounted
NoPage ==
    [state |-> "none", wsRef |-> 0, timers |-> 0, previousStatus |-> EMPTY,
     markers |-> [d \in DeviceIds |-> UNDEF], toast |-> FALSE,
     alarm |-> FALSE, received |-> NoMessage, shownBefore |-> UNDEF]

\* what the store holds when the process starts
InitialStores(v) ==
    CASE v \in MemVariants -> {<<>>}
      [] v = "mongoMulti" -> {<<>>, <<OldEventMulti>>}
      [] v \in {"mongoSingle", "mongoStatus"} -> {<<>>, <<OldEventSingle>>}

\* A connection: its readyState, whether it is a member of wss.clients,
\* whether its transport is dead while the server still sees it open, and
\* the messages its peer has received over it (kept while the peer can
\* still receive), and the role it was tagged with when it registered.
\* a connection that does not exist yet
NoClient ==
    [readyState |-> "NONE", registered |-> FALSE, stale |-> FALSE,
     inbox |-> <<>>, role |-> "none"]

\* Of the latest request to a route other than POST /api/alerts: op is the
\* route, id and deviceId its path parameter, pc where its handler stands
\* ("awaitDistinct": at `await Location.distinct(...)`, "done": answered),
\* code, message, body and count its response, ids what the pending query
\* returned, storeError whether the store rejected its operation, removed
\* the number of events it took out of the log.
AdminAnswer(op, id, deviceId, code, message, body, storeError) ==
    [op |-> op, id |-> id, deviceId |-> deviceId, pc |-> "done",
     code |-> code, message |-> message, body |-> body, count |-> Len(body),
     ids |-> <<>>, storeError |-> storeError, removed |-> 0]

\* no such request yet
NoAdmin == AdminAnswer("none", 0, UNDEF, 0, "", <<>>, FALSE)

\* a request that has not arrived yet
NoRequest ==
    [pc |-> "new", status |-> UNDEF, payload |-> UNDEF, code |-> 0,
     message |-> "", key |-> GLOBAL, rec |-> NoRec, alertData |-> NoRec,
     saved |-> 0, bcast |-> <<>>, partial |-> FALSE,
     pastClosed |-> FALSE, unseeded |-> FALSE]

\* Of a request: pc is where its handler stands ("new": not arrived,
\* "awaitSave": at `await location.save()`, "done": answered, "unanswered"
\* and "exited": its handler rejected, see UnhandledOutcomes); status and
\* payload are its body; code and message its response; key, rec and
\* alertData what it decoded. The rest records what it did: saved is the
\* number of events the store appended for it, bcast the records it
\* broadcast, partial whether that broadcast reached one connection of
\* wss.clients and did not reach another, pastClosed whether a connection
\* had already closed when it broadcast, unseeded whether the start-up
\* seeding had already failed when the request arrived.

InitOf(generations) ==
    /\ variant \in generations
    /\ now = 1
    /\ latestStatusByDevice =
          [k \in Keys |->
              IF k = GLOBAL /\ variant \in SingleVariants
              THEN WaitingStatus(1) ELSE NoRec]
    /\ keyOrder = IF variant \in SingleVariants THEN <<GLOBAL>> ELSE <<>>
    /\ locations \in InitialStores(variant)
    /\ locationIdCounter = 1
    /\ storeIds = 2
    /\ clients = [c \in ClientIds |-> NoClient]
    /\ reqs = [r \in Requests |-> NoRequest]
    /\ seed = [pc |-> IF variant \in MongoVariants THEN "connecting"
                      ELSE "off",
               ids |-> <<>>]
    /\ admin = NoAdmin
    /\ pages = [p \in PageIds |-> NoPage]
    /\ sockets = <<>>

Init == InitOf(Variants)

\* the process is up: no unhandled rejection has ended it
Running == \A r \in Requests : reqs[r].pc # "exited"

\* Where a request stands once its async handler has rejected with nothing
\* to handle the rejection; which one depends on the Express and Node.js
\* the server is run with.
\*   "done"      : Express 5 passes the rejection to its error handler,
\*                 which answers 500
\*   "unanswered": Express 4 drops the promise and Node.js only warns; the
\*                 request is never answered
\*   "exited"    : Express 4 drops the promise and Node.js (15 and later)
\*                 ends the process on the unhandled rejection
UnhandledOutcomes == {"done", "unanswered", "exited"}

(* ------------------------- Subscriber Registry ------------------------- *)
\* client.send(JSON.stringify(data)): the message reaches the peer unless
\* the transport is already dead; send reports that later, it never throws
\* on an open socket
Send(client, data) ==
    IF client.stale THEN client
    ELSE [client EXCEPT !.inbox = Append(@, data)]

\* a variant of broadcast without the readyState test
BroadcastUnchecked(data, cl) ==
    [c \in ClientIds |->
        IF cl[c].registered THEN Send(cl[c], data) ELSE cl[c]]

\* wss.clients.forEach(client => { if (client.readyState === 1) ... })
broadcast(data, cl) ==
    [c \in ClientIds |->
        IF cl[c].registered /\ cl[c].readyState = "OPEN"
        THEN Send(cl[c], data) ELSE cl[c]]

\* a variant of the replay that sends the first entry only
ReplayFirstOnly(client, order, table) ==
    IF order = <<>> THEN client ELSE Send(client, table[Head(order)])

\* latestStatusByDevice.forEach((status, deviceId) => ws.send(...))
RECURSIVE Replay(_, _, _)
Replay(client, order, table) ==
    IF order = <<>> THEN client
    ELSE Replay(Send(client, table[Head(order)]), Tail(order), table)

\* a variant of the upsert that copies the properties of the new record
\* over the entry and keeps every property the new record lacks
UpsertMerged(table, key, latest) ==
    [table EXCEPT ![key] =
        [latest EXCEPT
            !.rawPayload = IF @ = UNDEF THEN table[key].rawPayload ELSE @,
            !.speed = IF @ = UNDEF THEN table[key].speed ELSE @,
            !.latitude = IF @ = NoNum THEN table[key].latitude ELSE @]]

\* latestStatusByDevice.set(deviceId, { ... }) / latestStatus = { ... }:
\* the entry becomes the new object
Upsert(table, key, latest) == [table EXCEPT ![key] = latest]

\* Map.set: a new key goes to the end of the iteration order
SetOrder(order, key) ==
    IF \E i \in 1..Len(order) : order[i] = key THEN order
    ELSE Append(order, key)

\* wss.on('connection', ws => ...): the WebSocketServer has added the socket
\* to wss.clients; connections are numbered as they arrive
Connect(c) ==
    /\ Running
    /\ clients[c].readyState = "NONE"
    /\ \A d \in ClientIds : d < c => clients[d].readyState # "NONE"
    /\ clients' = [clients EXCEPT
          ![c] = Replay([readyState |-> "OPEN", registered |-> TRUE,
                         stale |-> FALSE, inbox |-> <<>>,
                         role |-> "viewer"],
                        keyOrder, latestStatusByDevice)]
    /\ UNCHANGED <<pages, sockets>>
    /\ UNCHANGED <<admin, variant, now, latestStatusByDevice, keyOrder, locations,
                   locationIdCounter, storeIds, reqs, seed>>

\* the transport dies; the server has not noticed yet
GoStale(c) ==
    /\ clients[c].readyState = "OPEN"
    /\ ~clients[c].stale
    /\ clients' = [clients EXCEPT ![c].stale = TRUE, ![c].inbox = <<>>]
    /\ UNCHANGED <<pages, sockets>>
    /\ UNCHANGED <<admin, variant, now, latestStatusByDevice, keyOrder, locations,
                   locationIdCounter, storeIds, reqs, seed>>

\* the closing handshake starts: readyState 2, still in wss.clients
BeginClose(c) ==
    /\ clients[c].readyState = "OPEN"
    /\ clients' = [clients EXCEPT ![c] = [readyState |-> "CLOSING",
                                           registered |-> TRUE,
                                           stale |-> FALSE, inbox |-> <<>>,
                                           role |-> clients[c].role]]
    /\ UNCHANGED <<pages, sockets>>
    /\ UNCHANGED <<admin, variant, now, latestStatusByDevice, keyOrder, locations,
                   locationIdCounter, storeIds, reqs, seed>>

\* a variant of the close event whose handler resets the latest state
CloseResetsState(c) ==
    /\ clients[c].readyState \in {"OPEN", "CLOSING"}
    /\ clients' = [clients EXCEPT ![c] = [readyState |-> "CLOSED",
                                           registered |-> FALSE,
                                           stale |-> FALSE, inbox |-> <<>>,
                                           role |-> clients[c].role]]
    /\ latestStatusByDevice' =
          [k \in Keys |->
              IF k = GLOBAL /\ variant \in SingleVariants
              THEN WaitingStatus(now) ELSE NoRec]
    /\ keyOrder' = IF variant \in SingleVariants THEN <<GLOBAL>> ELSE <<>>
    /\ UNCHANGED <<pages, sockets>>
    /\ UNCHANGED <<admin, variant, now, locations, locationIdCounter,
                   storeIds, reqs, seed>>

\* a variant of the close event after which wss.clients keeps the socket
CloseKeepsHandle(c) ==
    /\ clients[c].readyState \in {"OPEN", "CLOSING"}
    /\ clients' = [clients EXCEPT ![c] = [readyState |-> "CLOSED",
                                           registered |-> TRUE,
                                           stale |-> FALSE, inbox |-> <<>>,
                                           role |-> clients[c].role]]
    /\ UNCHANGED <<pages, sockets>>
    /\ UNCHANGED <<admin, variant, now, latestStatusByDevice, keyOrder, locations,
                   locationIdCounter, storeIds, reqs, seed>>

\* the 'close' event: the WebSocketServer deletes the socket from
\* wss.clients, then ws.on('close', ...) of the handler logs
Close(c) ==
    /\ clients[c].readyState \in {"OPEN", "CLOSING"}
    /\ clients' = [clients EXCEPT ![c] = [readyState |-> "CLOSED",
                                           registered |-> FALSE,
                                           stale |-> FALSE, inbox |-> <<>>,
                                           role |-> clients[c].role]]
    /\ UNCHANGED <<pages, sockets>>
    /\ UNCHANGED <<admin, variant, now, latestStatusByDevice, keyOrder, locations,
                   locationIdCounter, storeIds, reqs, seed>>

(* --------------------------- Event Log Store --------------------------- *)
\* a variant of the append that puts the event in front (unshift)
PushFront(locs, alertData) == <<alertData>> \o locs

\* locations.push(alertData)
Push(locs, alertData) == Append(locs, alertData)

\* What the schema of the durable store lets through on save(): a required
\* path must be present and non-empty, and NaN is not a Number.
\*   multi-device : deviceId, status, latitude, longitude are required
\*   single-device: latitude: Number, longitude: Number; the generation
\*                  that knows STATUS requires status too
SchemaAccepts(v, doc) ==
    /\ doc.latitude # NaN
    /\ doc.longitude # NaN
    /\ v = "mongoMulti" => Truthy(doc.deviceId) /\ Truthy(doc.status)
    /\ v = "mongoStatus" => Truthy(doc.status)

\* What the handler does once `await location.save()` has settled.
\*   multi-device : the error is caught and logged next to the save; the
\*                  broadcast and the 200 follow in both cases (so does the
\*                  single-device generation that knows STATUS)
\*   single-device: the broadcast and the 200 sit inside the try; a failed
\*                  save goes to the catch: 500, no broadcast
AfterSave(v, ok, mode) ==
    IF v \in {"mongoMulti", "mongoStatus"}
    THEN [bcast |-> TRUE, code |-> 200, message |-> ReceivedMessage(mode)]
    ELSE IF ok
    THEN [bcast |-> TRUE, code |-> 200, message |-> "Alert processed"]
    ELSE [bcast |-> FALSE, code |-> 500, message |-> "Error saving alert"]

(* ------------------------------ ingestion ------------------------------ *)
\* in this step the peer of one connection of wss.clients received
\* something and the peer of another received nothing
Partial(before, after) ==
    /\ \E c \in ClientIds : after[c].inbox # before[c].inbox
    /\ \E c \in ClientIds : /\ before[c].registered
                             /\ after[c].inbox = before[c].inbox

\* mongoose.connect rejected, or a query of loadLatestStatus did
SeedingFailed(sd) == sd.pc \in {"connFailed", "failed"}

\* a connection has closed
SomeClosed(cl) == \E c \in ClientIds : cl[c].readyState = "CLOSED"

\* app.post('/api/alerts', ...) from its entry to its first await or to its
\* response; requests are numbered as they arrive, `elapsed` milliseconds
\* after the previous reading of the clock
Post(r, status, payload, elapsed) ==
    /\ Running
    /\ reqs[r].pc = "new"
    /\ \A q \in Requests : q < r => reqs[q].pc # "new"
    /\ now + elapsed <= MaxTime
    /\ now' = now + elapsed
    /\ LET plan == PostPlan(variant, status, payload, now', locationIdCounter)
           accept == plan.kind = "accept"
           awaits == accept /\ plan.persist /\ variant \in MongoVariants
           table == IF accept
                    THEN Upsert(latestStatusByDevice, plan.key, plan.latest)
                    ELSE latestStatusByDevice
           sends == accept /\ ~awaits
           pushes == accept /\ plan.persist /\ variant \in MemVariants
       IN /\ latestStatusByDevice' = table
          /\ keyOrder' = IF accept THEN SetOrder(keyOrder, plan.key)
                         ELSE keyOrder
          /\ locations' = IF pushes THEN Push(locations, plan.alertData)
                          ELSE locations
          /\ locationIdCounter' = IF accept /\ plan.usesId
                                  THEN locationIdCounter + 1
                                  ELSE locationIdCounter
          /\ clients' = IF sends THEN broadcast(table[plan.key], clients)
                        ELSE clients
          /\ \E pc \in (IF plan.kind = "unhandled" THEN UnhandledOutcomes
                        ELSE IF awaits THEN {"awaitSave"} ELSE {"done"}) :
             reqs' = [reqs EXCEPT ![r] =
                [pc |-> pc,
                 status |-> status, payload |-> payload,
                 code |-> IF pc = "done" THEN plan.code ELSE 0,
                 message |-> IF pc = "done" THEN plan.message ELSE "",
                 key |-> plan.key, rec |-> plan.latest,
                 alertData |-> plan.alertData,
                 saved |-> IF pushes THEN 1 ELSE 0,
                 bcast |-> IF sends THEN <<table[plan.key]>> ELSE <<>>,
                 partial |-> sends /\ Partial(clients, clients'),
                 pastClosed |-> sends /\ SomeClosed(clients),
                 unseeded |-> SeedingFailed(seed)]]
    /\ UNCHANGED <<pages, sockets>>
    /\ UNCHANGED <<admin, variant, storeIds, seed>>

\* the store can carry out an operation: mongoose holds every operation
\* back until the connection is up, and rejects it when there is none
Connected == seed.pc \notin {"connecting", "connFailed"}

\* `await location.save()` settles and the handler runs to its response
SaveSettled(r, ok) ==
    /\ Running
    /\ reqs[r].pc = "awaitSave"
    /\ ok => Connected /\ SchemaAccepts(variant, reqs[r].alertData)
    /\ LET after == AfterSave(variant, ok, reqs[r].alertData.status)
           data == latestStatusByDevice[reqs[r].key]
       IN /\ locations' =
                IF ok
                THEN Push(locations, [reqs[r].alertData EXCEPT !._id = storeIds])
                ELSE locations
          /\ storeIds' = IF ok THEN storeIds + 1 ELSE storeIds
          /\ clients' = IF after.bcast THEN broadcast(data, clients)
                        ELSE clients
          /\ reqs' = [reqs EXCEPT
                ![r].pc = "done",
                ![r].code = after.code,
                ![r].message = after.message,
                ![r].saved = IF ok THEN 1 ELSE 0,
                ![r].bcast = IF after.bcast THEN <<data>> ELSE <<>>,
                ![r].partial = after.bcast /\ Partial(clients, clients'),
                ![r].pastClosed = after.bcast /\ SomeClosed(clients)]
    /\ UNCHANGED <<pages, sockets>>
    /\ UNCHANGED <<admin, variant, now, latestStatusByDevice, keyOrder,
                   locationIdCounter, seed>>

SaveOk(r) == SaveSettled(r, TRUE)
SaveFail(r) == SaveSettled(r, FALSE)

(* --------------------------- start-up seeding -------------------------- *)
\* the Device State Table entry loadLatestStatus builds from a document
SeededStatus(deviceId, latestAlert) ==
    Record(0, latestAlert.deviceId,
           IF latestAlert.deviceId = UNDEF THEN UNDEF
           ELSE Or(latestAlert.deviceName, deviceId),
           latestAlert.status, latestAlert.latitude, latestAlert.longitude,
           latestAlert.speed, latestAlert.satellites, latestAlert.uptime,
           latestAlert.rssi, latestAlert.snr, latestAlert.timestamp, UNDEF,
           latestAlert.rawPayload)

\* Location.distinct('deviceId')
DistinctDeviceIds(locs) == {locs[i].deviceId : i \in 1..Len(locs)}

\* the orders in which the store may list a set of values
Orderings(S) ==
    {q \in [1..Cardinality(S) -> S] :
        \A i, j \in 1..Cardinality(S) : i # j => q[i] # q[j]}

\* Location.findOne(filter).sort({ timestamp: -1 }): the documents the query
\* may return; none when nothing matches
FindLatest(locs, deviceId) ==
    LET match == {i \in 1..Len(locs) :
                     deviceId = UNDEF \/ locs[i].deviceId = deviceId}
    IN {locs[i] : i \in {j \in match :
                    \A k \in match : locs[k].timestamp <= locs[j].timestamp}}

\* mongoose.connect(URI).then(() => loadLatestStatus()): the first query of
\* loadLatestStatus is issued
MongoConnected ==
    /\ Running
    /\ seed.pc = "connecting"
    /\ seed' = [seed EXCEPT
          !.pc = IF variant = "mongoMulti" THEN "distinct" ELSE "findOne"]
    /\ UNCHANGED <<pages, sockets>>
    /\ UNCHANGED <<admin, variant, now, latestStatusByDevice, keyOrder, locations,
                   locationIdCounter, storeIds, clients, reqs>>

\* .catch(err => console.error(...)): loadLatestStatus never runs
MongoConnectFailed ==
    /\ Running
    /\ seed.pc = "connecting"
    /\ seed' = [seed EXCEPT !.pc = "connFailed"]
    /\ UNCHANGED <<pages, sockets>>
    /\ UNCHANGED <<admin, variant, now, latestStatusByDevice, keyOrder, locations,
                   locationIdCounter, storeIds, clients, reqs>>

\* const deviceIds = await Location.distinct('deviceId')
SeedDistinct ==
    /\ Running
    /\ seed.pc = "distinct"
    /\ \E ids \in Orderings(DistinctDeviceIds(locations)) :
          seed' = [pc |-> IF ids = <<>> THEN "done" ELSE "findOne",
                   ids |-> ids]
    /\ UNCHANGED <<pages, sockets>>
    /\ UNCHANGED <<admin, variant, now, latestStatusByDevice, keyOrder, locations,
                   locationIdCounter, storeIds, clients, reqs>>

\* one `await ...findOne(...).sort(...)` and the assignment that follows it
SeedFindOne ==
    /\ Running
    /\ seed.pc = "findOne"
    /\ LET deviceId == IF variant = "mongoMulti" THEN Head(seed.ids)
                       ELSE UNDEF
           key == IF variant = "mongoMulti" THEN deviceId ELSE GLOBAL
           found == FindLatest(locations, deviceId)
           rest == IF variant = "mongoMulti" THEN Tail(seed.ids) ELSE <<>>
       IN /\ IF found = {}
             THEN UNCHANGED <<latestStatusByDevice, keyOrder>>
             ELSE \E latestAlert \in found :
                    /\ latestStatusByDevice' =
                          [latestStatusByDevice EXCEPT
                              ![key] = SeededStatus(deviceId, latestAlert)]
                    /\ keyOrder' = SetOrder(keyOrder, key)
          /\ seed' = [pc |-> IF rest = <<>> THEN "done" ELSE "findOne",
                      ids |-> rest]
    /\ UNCHANGED <<pages, sockets>>
    /\ UNCHANGED <<admin, variant, now, locations, locationIdCounter, storeIds,
                   clients, reqs>>

\* a query of loadLatestStatus rejects: catch (err) { console.error(...) }
SeedFailed ==
    /\ Running
    /\ seed.pc \in {"distinct", "findOne"}
    /\ seed' = [pc |-> "failed", ids |-> <<>>]
    /\ UNCHANGED <<pages, sockets>>
    /\ UNCHANGED <<admin, variant, now, latestStatusByDevice, keyOrder, locations,
                   locationIdCounter, storeIds, clients, reqs>>

(* ------------------------- the other HTTP routes ----------------------- *)
\* a path parameter :id that is not a well-formed ObjectId
MalformedId == -1

\* the :id values of the requests: a malformed one, a well-formed one that
\* was never assigned (0), and ids the stores assign
IdParams == {MalformedId} \cup (0..MaxReq)

\* the operation a handler awaits can settle this way: the in-memory
\* generations have no store that could reject; the durable store carries an
\* operation out only over an established connection
CanSettle(ok) == IF variant \in MemVariants THEN ok ELSE (ok => Connected)

\* the other routes are requested one after the other
AdminIdle == admin.pc = "done"

\* insertion into a list sorted newest first, behind every element that is
\* not older
RECURSIVE InsertNewestFirst(_, _)
InsertNewestFirst(sorted, x) ==
    IF sorted = <<>> THEN <<x>>
    ELSE IF Head(sorted).timestamp >= x.timestamp
    THEN <<Head(sorted)>> \o InsertNewestFirst(Tail(sorted), x)
    ELSE <<x>> \o sorted

\* [...locations].sort((a, b) => new Date(b.timestamp).getTime()
\*                               - new Date(a.timestamp).getTime())
\* Array.prototype.sort is stable; an ISO string gives back its millisecond
RECURSIVE SortNewestFirst(_)
SortNewestFirst(locs) ==
    IF locs = <<>> THEN <<>>
    ELSE InsertNewestFirst(SortNewestFirst(SubSeq(locs, 1, Len(locs) - 1)),
                           locs[Len(locs)])

\* Location.find().sort({ timestamp: -1 }): the lists the query may return;
\* the store fixes no order among documents of equal timestamp
FindSorted(locs) ==
    LET n == Len(locs)
        sorted == {o \in Orderings(1..n) :
                      \A i, j \in 1..n :
                         i < j => locs[o[i]].timestamp >= locs[o[j]].timestamp}
    IN {[i \in 1..n |-> locs[o[i]]] : o \in sorted}

\* app.get('/api/alerts', ...): the answers it may give
GetAlertsAnswers(v, locs, ok) ==
    IF v \in MemVariants
    THEN {AdminAnswer("getAlerts", 0, UNDEF, 200, "", SortNewestFirst(locs),
                      FALSE)}
    ELSE IF ok
    THEN {AdminAnswer("getAlerts", 0, UNDEF, 200, "", body, FALSE) :
             body \in FindSorted(locs)}
    ELSE {AdminAnswer("getAlerts", 0, UNDEF, 500, "Error fetching alerts",
                      <<>>, TRUE)}

GetAlerts(ok) ==
    /\ Running
    /\ AdminIdle
    /\ CanSettle(ok)
    /\ admin' \in GetAlertsAnswers(variant, locations, ok)
    /\ UNCHANGED <<pages, sockets>>
    /\ UNCHANGED <<variant, now, latestStatusByDevice, keyOrder, locations,
                   locationIdCounter, storeIds, clients, reqs, seed>>

\* Array.from(latestStatusByDevice.values())
Values(order, table) == [i \in 1..Len(order) |-> table[order[i]]]

\* app.get('/api/status', ...)
\*   single-device: res.json(latestStatus)
\*   in-memory multi-device: res.json(latestStatus) where no latestStatus is
\*       declared: a ReferenceError, answered 500 by the framework
\*   durable multi-device: { devices: allStatuses, count }
GetStatusAnswer(v, order, table) ==
    CASE v \in SingleVariants ->
            AdminAnswer("getStatus", 0, UNDEF, 200, "", <<table[GLOBAL]>>,
                        FALSE)
      [] v = "memMulti" ->
            AdminAnswer("getStatus", 0, UNDEF, 500, "ReferenceError", <<>>,
                        FALSE)
      [] v = "mongoMulti" ->
            AdminAnswer("getStatus", 0, UNDEF, 200, "", Values(order, table),
                        FALSE)

GetStatus ==
    /\ Running
    /\ AdminIdle
    /\ admin' = GetStatusAnswer(variant, keyOrder, latestStatusByDevice)
    /\ UNCHANGED <<pages, sockets>>
    /\ UNCHANGED <<variant, now, latestStatusByDevice, keyOrder, locations,
                   locationIdCounter, storeIds, clients, reqs, seed>>

\* the generations that have the routes /api/status/:deviceId and
\* /api/devices; the framework answers 404 elsewhere
DeviceRoutes(v) == v = "mongoMulti"

\* a variant of the lookup that never finds the device
StatusUnknown(table, deviceId) ==
    AdminAnswer("getStatusDevice", 0, deviceId, 404, "Device not found",
                <<>>, FALSE)

\* const status = latestStatusByDevice.get(deviceId); if (status) ... else 404
StatusOfDevice(table, deviceId) ==
    IF table[deviceId] # NoRec
    THEN AdminAnswer("getStatusDevice", 0, deviceId, 200, "",
                     <<table[deviceId]>>, FALSE)
    ELSE AdminAnswer("getStatusDevice", 0, deviceId, 404, "Device not found",
                     <<>>, FALSE)

\* app.get('/api/status/:deviceId', ...)
GetStatusDevice(deviceId) ==
    /\ Running
    /\ AdminIdle
    /\ admin' = IF DeviceRoutes(variant)
                THEN StatusOfDevice(latestStatusByDevice, deviceId)
                ELSE AdminAnswer("getStatusDevice", 0, deviceId, 404,
                                 "Cannot GET", <<>>, FALSE)
    /\ UNCHANGED <<pages, sockets>>
    /\ UNCHANGED <<variant, now, latestStatusByDevice, keyOrder, locations,
                   locationIdCounter, storeIds, clients, reqs, seed>>

\* app.get('/api/devices', ...) up to `await Location.distinct('deviceId')`
\* and the settling of that query
GetDevicesQuery(ok) ==
    /\ Running
    /\ AdminIdle
    /\ CanSettle(ok)
    /\ IF ~DeviceRoutes(variant)
       THEN admin' = AdminAnswer("getDevices", 0, UNDEF, 404, "Cannot GET",
                                 <<>>, FALSE)
       ELSE IF ok
       THEN \E ids \in Orderings(DistinctDeviceIds(locations)) :
               admin' = [AdminAnswer("getDevices", 0, UNDEF, 0, "", <<>>,
                                     FALSE)
                           EXCEPT !.pc = "awaitDistinct", !.ids = ids]
       ELSE admin' = AdminAnswer("getDevices", 0, UNDEF, 500,
                                 "Error fetching devices", <<>>, TRUE)
    /\ UNCHANGED <<pages, sockets>>
    /\ UNCHANGED <<variant, now, latestStatusByDevice, keyOrder, locations,
                   locationIdCounter, storeIds, clients, reqs, seed>>

\* deviceIds.map(id => ({ deviceId: id, deviceName: id,
\*                        latestStatus: latestStatusByDevice.get(id) || null }))
\* (null is NoRec)
DevicesOf(ids, table) ==
    [i \in 1..Len(ids) |->
        [deviceId |-> ids[i], deviceName |-> ids[i],
         latestStatus |-> table[ids[i]]]]

\* the rest of app.get('/api/devices', ...)
GetDevicesAnswer ==
    /\ Running
    /\ admin.pc = "awaitDistinct"
    /\ admin' = AdminAnswer("getDevices", 0, UNDEF, 200, "",
                            DevicesOf(admin.ids, latestStatusByDevice), FALSE)
    /\ UNCHANGED <<pages, sockets>>
    /\ UNCHANGED <<variant, now, latestStatusByDevice, keyOrder, locations,
                   locationIdCounter, storeIds, clients, reqs, seed>>

\* some event of the log has this _id
HasId(locs, id) == \E i \in 1..Len(locs) : locs[i]._id = id

\* a variant of the removal that empties the log
WithoutAny(locs, id) == <<>>

\* locations.filter(loc => loc._id !== id); findByIdAndDelete(id) removes
\* the same documents, _id being unique in the collection
Without(locs, id) == SelectSeq(locs, LAMBDA loc : loc._id # id)

\* app.delete('/api/alerts/:id', ...): its answer
\*   in-memory: 200 when the filter shortened the array, 404 otherwise
\*   durable  : findByIdAndDelete throws on a malformed id and rejects when
\*              the store fails: 500; multi-device answers 404 for no result,
\*              single-device answers 200 with success: false
DeleteOneAnswer(v, found, id, ok) ==
    IF v \in MemVariants
    THEN IF found
         THEN AdminAnswer("deleteOne", id, UNDEF, 200, "Alert deleted", <<>>,
                          FALSE)
         ELSE AdminAnswer("deleteOne", id, UNDEF, 404, "Alert not found",
                          <<>>, FALSE)
    ELSE IF id = MalformedId \/ ~ok
    THEN AdminAnswer("deleteOne", id, UNDEF, 500, "Error deleting alert",
                     <<>>, ~ok)
    ELSE IF v = "mongoMulti"
    THEN IF found
         THEN AdminAnswer("deleteOne", id, UNDEF, 200, "Alert deleted", <<>>,
                          FALSE)
         ELSE AdminAnswer("deleteOne", id, UNDEF, 404, "Alert not found",
                          <<>>, FALSE)
    ELSE IF found
    THEN AdminAnswer("deleteOne", id, UNDEF, 200, "Deleted", <<>>, FALSE)
    ELSE AdminAnswer("deleteOne", id, UNDEF, 200, "Not found", <<>>, FALSE)

\* a variant of the removal that starts the id counter again
DeleteOneResetsCounter(id, ok) ==
    /\ Running
    /\ AdminIdle
    /\ CanSettle(ok)
    /\ LET answer == DeleteOneAnswer(variant, HasId(locations, id), id, ok)
           locs == IF answer.code = 500 THEN locations
                   ELSE Without(locations, id)
       IN /\ admin' = [answer EXCEPT !.removed = Len(locations) - Len(locs)]
          /\ locations' = locs
    /\ locationIdCounter' = IF variant \in MemVariants THEN 1
                            ELSE locationIdCounter
    /\ UNCHANGED <<pages, sockets>>
    /\ UNCHANGED <<variant, now, latestStatusByDevice, keyOrder, storeIds,
                   clients, reqs, seed>>

\* app.delete('/api/alerts/:id', ...): the store operation and the response
\* (what follows the await reads no shared state)
DeleteOne(id, ok) ==
    /\ Running
    /\ AdminIdle
    /\ CanSettle(ok)
    /\ LET answer == DeleteOneAnswer(variant, HasId(locations, id), id, ok)
           locs == IF answer.code = 500 THEN locations
                   ELSE Without(locations, id)
       IN /\ admin' = [answer EXCEPT !.removed = Len(locations) - Len(locs)]
          /\ locations' = locs
    /\ UNCHANGED <<pages, sockets>>
    /\ UNCHANGED <<variant, now, latestStatusByDevice, keyOrder,
                   locationIdCounter, storeIds, clients, reqs, seed>>

\* app.delete('/api/alerts', ...): its answer
DeleteAllAnswer(v, ok) ==
    IF v \in MemVariants \/ (v = "mongoMulti" /\ ok)
    THEN AdminAnswer("deleteAll", 0, UNDEF, 200, "All alerts cleared", <<>>,
                     FALSE)
    ELSE IF ok
    THEN AdminAnswer("deleteAll", 0, UNDEF, 200, "All cleared", <<>>, FALSE)
    ELSE AdminAnswer("deleteAll", 0, UNDEF, 500, "Error clearing alerts",
                     <<>>, TRUE)

\* a variant of the clearing that keeps the first event of the log
DeleteAllButFirst(ok) ==
    /\ Running
    /\ AdminIdle
    /\ CanSettle(ok)
    /\ admin' = [DeleteAllAnswer(variant, ok)
                   EXCEPT !.removed = IF ok THEN Len(locations) ELSE 0]
    /\ locations' = IF ok /\ locations # <<>> THEN <<Head(locations)>>
                    ELSE locations
    /\ locationIdCounter' = IF variant \in MemVariants THEN 1
                            ELSE locationIdCounter
    /\ UNCHANGED <<pages, sockets>>
    /\ UNCHANGED <<variant, now, latestStatusByDevice, keyOrder, storeIds,
                   clients, reqs, seed>>

\* a variant of delete-all that forgets the devices as well
DeleteAllAndDevices(ok) ==
    /\ Running
    /\ AdminIdle
    /\ CanSettle(ok)
    /\ admin' = [DeleteAllAnswer(variant, ok)
                   EXCEPT !.removed = IF ok THEN Len(locations) ELSE 0]
    /\ locations' = IF ok THEN <<>> ELSE locations
    /\ locationIdCounter' = IF variant \in MemVariants THEN 1
                            ELSE locationIdCounter
    /\ latestStatusByDevice' = [k \in Keys |-> NoRec]
    /\ keyOrder' = <<>>
    /\ UNCHANGED <<pages, sockets>>
    /\ UNCHANGED <<variant, now, storeIds, clients, reqs, seed>>

\* app.delete('/api/alerts', ...): locations = []; locationIdCounter = 1 in
\* memory, `await Location.deleteMany({})` in the durable generations
DeleteAll(ok) ==
    /\ Running
    /\ AdminIdle
    /\ CanSettle(ok)
    /\ admin' = [DeleteAllAnswer(variant, ok)
                   EXCEPT !.removed = IF ok THEN Len(locations) ELSE 0]
    /\ locations' = IF ok THEN <<>> ELSE locations
    /\ locationIdCounter' = IF variant \in MemVariants THEN 1
                            ELSE locationIdCounter
    /\ UNCHANGED <<pages, sockets>>
    /\ UNCHANGED <<variant, now, latestStatusByDevice, keyOrder, storeIds,
                   clients, reqs, seed>>

(* ---------------------------- Command Relay ---------------------------- *)
\* the message that carries the operator's command to a receiver
Command(deviceId) == [command |-> "acknowledge", deviceId |-> deviceId]

\* a device-side gateway registers: the connection is tagged "receiver"
ConnectReceiver(c) ==
    /\ Running
    /\ clients[c].readyState = "NONE"
    /\ \A d \in ClientIds : d < c => clients[d].readyState # "NONE"
    /\ clients' = [clients EXCEPT
          ![c] = [readyState |-> "OPEN", registered |-> TRUE,
                  stale |-> FALSE, inbox |-> <<>>, role |-> "receiver"]]
    /\ UNCHANGED <<pages, sockets>>
    /\ UNCHANGED <<admin, variant, now, latestStatusByDevice, keyOrder, locations,
                   locationIdCounter, storeIds, reqs, seed>>

\* the connections a command is delivered to
OpenReceivers(cl) ==
    {c \in ClientIds : /\ cl[c].registered
                       /\ cl[c].readyState = "OPEN"
                       /\ cl[c].role = "receiver"}

\* a variant of the relay that disregards the role tag
AcknowledgeAnyRole(deviceId) ==
    /\ Running
    /\ AdminIdle
    /\ LET open == {c \in ClientIds : /\ clients[c].registered
                                      /\ clients[c].readyState = "OPEN"}
       IN /\ \A c \in open : Len(clients[c].inbox) < MaxInbox
          /\ clients' = [c \in ClientIds |->
                            IF c \in open
                            THEN Send(clients[c], Command(deviceId))
                            ELSE clients[c]]
          /\ admin' =
                [AdminAnswer("acknowledge", 0, deviceId,
                             IF open = {} THEN 503 ELSE 200,
                             IF open = {} THEN "No receivers connected"
                             ELSE "Command relayed", <<>>, FALSE)
                    EXCEPT !.count = Cardinality(open)]
    /\ UNCHANGED <<pages, sockets>>
    /\ UNCHANGED <<variant, now, latestStatusByDevice, keyOrder, locations,
                   locationIdCounter, storeIds, reqs, seed>>

\* POST /acknowledge, body { deviceId }: relay(deviceId, command) delivers
\* to the open receiver-role connections and reports how many; with none
\* open it fails with 503
Acknowledge(deviceId) ==
    /\ Running
    /\ AdminIdle
    /\ LET open == OpenReceivers(clients)
       IN /\ \A c \in open : Len(clients[c].inbox) < MaxInbox
          /\ clients' = [c \in ClientIds |->
                            IF c \in open
                            THEN Send(clients[c], Command(deviceId))
                            ELSE clients[c]]
          /\ admin' =
                [AdminAnswer("acknowledge", 0, deviceId,
                             IF open = {} THEN 503 ELSE 200,
                             IF open = {} THEN "No receivers connected"
                             ELSE "Command relayed", <<>>, FALSE)
                    EXCEPT !.count = Cardinality(open)]
    /\ UNCHANGED <<pages, sockets>>
    /\ UNCHANGED <<variant, now, latestStatusByDevice, keyOrder, locations,
                   locationIdCounter, storeIds, reqs, seed>>

(* ---------------------------- specification ---------------------------- *)
Bodies(v) == IF v \in MultiVariants THEN MultiBodies ELSE SingleBodies
FanoutBodies(v) ==
    IF v \in MultiVariants THEN MultiFanoutBodies ELSE SingleFanoutBodies

\* the store and its start-up seeding
StoreNext ==
    \/ \E r \in Requests : SaveOk(r)
    \/ \E r \in Requests : SaveFail(r)
    \/ MongoConnected
    \/ MongoConnectFailed
    \/ SeedDistinct
    \/ SeedFindOne
    \/ SeedFailed

\* the ingestion endpoint and the store, with no subscriber connected
Next ==
    \/ \E r \in Requests, b \in Bodies(variant), elapsed \in {0, 1} :
          Post(r, b.status, b.payload, elapsed)
    \/ StoreNext

Spec == Init /\ [][Next]_vars

\* the same endpoint with subscribers that connect, go stale and close
FanoutNext ==
    \/ \E r \in Requests, b \in FanoutBodies(variant) :
          Post(r, b.status, b.payload, 0)
    \/ StoreNext
    \/ \E c \in ClientIds : Connect(c)
    \/ \E c \in ClientIds : GoStale(c)
    \/ \E c \in ClientIds : BeginClose(c)
    \/ \E c \in ClientIds : Close(c)

FanoutSpec == Init /\ [][FanoutNext]_vars

\* the submissions of the runs that read and delete the log
MultiAdminBodies ==
    {Body(<<"STATUS">>, PayloadEmergency), Body(<<"STATUS">>, PayloadPing)}
SingleAdminBodies ==
    {Body(<<"EMERGENCY">>, PayloadLegacy), Body(<<"STATUS">>, PayloadLegacy)}
AdminBodies(v) ==
    IF v \in MultiVariants THEN MultiAdminBodies ELSE SingleAdminBodies

\* the endpoint, the store and the routes that read and delete
AdminNext ==
    \/ \E r \in Requests, b \in AdminBodies(variant), elapsed \in {0, 1} :
          Post(r, b.status, b.payload, elapsed)
    \/ StoreNext
    \/ \E ok \in BOOLEAN : GetAlerts(ok)
    \/ GetStatus
    \/ \E deviceId \in DeviceIds : GetStatusDevice(deviceId)
    \/ \E ok \in BOOLEAN : GetDevicesQuery(ok)
    \/ GetDevicesAnswer
    \/ \E id \in IdParams, ok \in BOOLEAN : DeleteOne(id, ok)
    \/ \E ok \in BOOLEAN : DeleteAll(ok)

AdminSpec == Init /\ [][AdminNext]_vars

(* ------------------------ vocabulary of the claims --------------------- *)
\* the request has been answered
Answered(r) == reqs[r].pc = "done"
\* the request has been answered with success
Accepted(r) == Answered(r) /\ reqs[r].code = 200
\* the pipe-delimited fields of the submitted payload
FieldsOf(r) == Split(reqs[r].payload, "|")
\* the mode of a submission: the second field of the payload in the
\* multi-device generations, the status field of the body in the others
ModeOf(r) ==
    IF variant \in MultiVariants THEN At(FieldsOf(r), 1) ELSE reqs[r].status
\* the Device State Table key of a submission
KeyOf(r) == IF variant \in MultiVariants THEN At(FieldsOf(r), 0) ELSE GLOBAL
\* the modes the canonical policy persists
PersistedByPolicy(mode) == mode \in {<<"EMERGENCY">>, <<"NORMAL">>}
\* the request passed validation and decoding: it upserted its record
Ingested(r) == reqs[r].pc # "new" /\ reqs[r].rec # NoRec
\* the request left the table, the store and the subscribers alone
Untouched(r) ==
    reqs[r].rec = NoRec /\ reqs[r].saved = 0 /\ reqs[r].bcast = <<>>
\* the request is answered in this step
AnsweredNow(r) == reqs[r].pc # "done" /\ reqs'[r].pc = "done"
\* p is a prefix of q
IsPrefix(p, q) == Len(p) <= Len(q) /\ SubSeq(q, 1, Len(p)) = p

(* --------------------------------- C1 ---------------------------------- *)
\* C1: every ingestion answered with success whose mode is EMERGENCY or
\* NORMAL has made the store append exactly one event, whatever its
\* latitude and longitude parsed to.
C1_AcceptedPersistedModeAppendsOne ==
    \A r \in Requests :
        Accepted(r) /\ PersistedByPolicy(ModeOf(r)) => reqs[r].saved = 1

(* --------------------------------- C2 ---------------------------------- *)
\* C2: the step that answers with success an ingestion whose mode is
\* neither EMERGENCY nor NORMAL leaves the event log as it was and puts the
\* record of that ingestion (its payload, its mode, the time of the step)
\* into the Device State Table under its device.
C2_OtherModesLeaveLogAndUpsert ==
    [][\A r \in Requests :
         (AnsweredNow(r) /\ reqs'[r].code = 200
            /\ ~PersistedByPolicy(ModeOf(r)'))
         => /\ locations' = locations
            /\ latestStatusByDevice'[KeyOf(r)'].payload = reqs'[r].payload
            /\ latestStatusByDevice'[KeyOf(r)'].status = ModeOf(r)'
            /\ latestStatusByDevice'[KeyOf(r)'].timestamp = now'
            /\ latestStatusByDevice'[KeyOf(r)'] = reqs'[r].rec]_vars

\* the identical STATUS payload was ingested twice for a device that has a
\* persisted event: the log still holds that one event, the entry is the
\* second ingestion's
C2_Witness ==
    /\ Accepted(1) /\ Accepted(2)
    /\ reqs[1].payload = reqs[2].payload
    /\ ModeOf(1) = <<"STATUS">>
    /\ reqs[2].rec.timestamp > reqs[1].rec.timestamp
    /\ latestStatusByDevice[KeyOf(2)] = reqs[2].rec
    /\ Len(locations) = 1

(* --------------------------------- C3 ---------------------------------- *)
\* the latest request that upserted a record under key k (0: none)
LastIngested(k) ==
    LET S == {q \in Requests : Ingested(q) /\ reqs[q].key = k}
    IN IF S = {} THEN 0 ELSE CHOOSE q \in S : \A p \in S : p <= q

\* C3: at the moment an ingestion is answered with success, the Device
\* State Table entry of its device is the record of the latest ingestion
\* for that device.
C3_TableHoldsLatestIngestion ==
    [][\A r \in Requests, k \in Keys :
         (AnsweredNow(r) /\ reqs'[r].code = 200 /\ reqs'[r].key = k)
         => latestStatusByDevice'[k] = reqs'[LastIngested(k)'].rec]_vars

(* --------------------------------- C4 ---------------------------------- *)
\* the store was asked to append an event for the request and did not
AppendFailed(r) ==
    /\ Answered(r) /\ Ingested(r)
    /\ variant \in MongoVariants
    /\ PersistedByPolicy(ModeOf(r))
    /\ reqs[r].saved = 0

\* C4: an ingestion whose store append failed is answered with success
\* and has broadcast once.
C4_AppendFailureStillSucceeds ==
    \A r \in Requests :
        AppendFailed(r) => reqs[r].code = 200 /\ Len(reqs[r].bcast) = 1

(* --------------------------------- C5 ---------------------------------- *)
\* the acknowledgment says the alert was saved
SaysSaved(message) == message = "Alert received and saved"

\* C5: the acknowledgment of an accepted ingestion says "saved" exactly
\* when the store appended an event for it.
C5_AckTellsWhetherPersisted ==
    \A r \in Requests :
        Accepted(r) => (SaysSaved(reqs[r].message) <=> reqs[r].saved = 1)

(* --------------------------------- C6 ---------------------------------- *)
\* C6: an accepted ingestion has broadcast exactly once, and what it
\* broadcast is the latest-state record it decoded itself.
C6_OneBroadcastOfOwnRecord ==
    \A r \in Requests : Accepted(r) => reqs[r].bcast = <<reqs[r].rec>>

(* --------------------------------- C7 ---------------------------------- *)
\* the devices the Device State Table knows
KnownKeys == {k \in Keys : latestStatusByDevice[k] # NoRec}

\* C7: the step that connects a subscriber hands it exactly one message
\* per known device, that device's current latest state, and nothing else;
\* whatever a connection receives afterwards comes after these messages.
C7_ReplayBeforeBroadcasts ==
    [][\A c \in ClientIds :
         /\ (clients[c].readyState = "NONE" /\ clients'[c].readyState = "OPEN")
            => LET box == clients'[c].inbox
               IN /\ Len(box) = Cardinality(KnownKeys)
                  /\ \A k \in KnownKeys :
                        Cardinality({i \in 1..Len(box) :
                            box[i] = latestStatusByDevice[k]}) = 1
         /\ (/\ clients[c].readyState = "OPEN"
             /\ clients'[c].readyState = "OPEN"
             /\ ~clients'[c].stale)
            => IsPrefix(clients[c].inbox, clients'[c].inbox)]_vars

\* a subscriber holds the replay of two devices followed by the broadcast
\* of a later ingestion
C7_Witness ==
    \E c \in ClientIds, r \in Requests :
        /\ clients[c].readyState = "OPEN"
        /\ Len(clients[c].inbox) = 3
        /\ clients[c].inbox[1].deviceId # clients[c].inbox[2].deviceId
        /\ Accepted(r)
        /\ clients[c].inbox[3] = reqs[r].rec
        /\ clients[c].inbox[3] # clients[c].inbox[1]
        /\ clients[c].inbox[3] # clients[c].inbox[2]

(* --------------------------------- C8 ---------------------------------- *)
\* C8: a submission without its status field or without its payload field
\* is answered 400 and touches neither the table, the log nor the
\* subscribers.
C8_MissingFieldRejected ==
    \A r \in Requests :
        (Answered(r) /\ (reqs[r].status = UNDEF \/ reqs[r].payload = UNDEF))
        => reqs[r].code = 400 /\ Untouched(r)

C10_BroadcastReachesOpenOnly ==
    [][\A r \in Requests :
         (reqs[r].bcast = <<>> /\ reqs'[r].bcast # <<>>)
         => /\ \A c \in ClientIds :
                 IF clients[c].readyState = "OPEN" /\ ~clients[c].stale
                 THEN clients'[c].inbox =
                         Append(clients[c].inbox, reqs'[r].bcast[1])
                 ELSE clients'[c] = clients[c]
            /\ reqs'[r].code = 200]_vars

\* an accepted ingestion whose broadcast reached one registered connection
\* and not another, while a third-state connection is closing or stale
C10_Witness ==
    \E r \in Requests :
        /\ Accepted(r)
        /\ reqs[r].partial
        /\ \E c \in ClientIds :
              clients[c].stale \/ clients[c].readyState = "CLOSING"

(* --------------------------------- C11 --------------------------------- *)
\* the connections wss.clients holds
Registry == {c \in ClientIds : clients[c].registered}

\* C11: after every step the registry holds exactly the connections whose
\* transport has not closed (open or closing), and nothing is ever sent to
\* or changed on a connection once it has closed.
C11_RegistryDropsClosed ==
    [][\A c \in ClientIds :
         /\ (c \in Registry' <=>
                clients'[c].readyState \in {"OPEN", "CLOSING"})
         /\ clients[c].readyState = "CLOSED" => clients'[c] = clients[c]]_vars

\* one connection has closed and a later ingestion was broadcast to another
\* connection that is still open
C11_Witness ==
    \E c, d \in ClientIds, r \in Requests :
        /\ clients[c].readyState = "CLOSED"
        /\ c \notin Registry
        /\ d \in Registry
        /\ Accepted(r)
        /\ Len(clients[d].inbox) > 0
        /\ clients[d].inbox[Len(clients[d].inbox)] = reqs[r].rec
        /\ reqs[r].pastClosed

(* ------------------ vocabulary of the claims on the routes -------------- *)
\* this step answers a request to the route op
Answers(op) ==
    /\ admin'.op = op
    /\ admin'.pc = "done"
    /\ UNCHANGED <<reqs, seed, clients>>
    /\ admin.pc = (IF op = "getDevices" /\ admin'.code = 200
                   THEN "awaitDistinct" ELSE "done")
\* the positions of the log that hold an event with this id
Holding(id) == {i \in 1..Len(locations) : locations[i]._id = id}
\* the log without its i-th event
Dropping(i) ==
    SubSeq(locations, 1, i - 1) \o SubSeq(locations, i + 1, Len(locations))
\* the Device State Table is left as it was
TableUnchanged == UNCHANGED <<latestStatusByDevice, keyOrder>>

(* --------------------------------- C12 --------------------------------- *)
\* C12: the step that answers DELETE /api/alerts/{id} for a well-formed id
\* that no persisted event has, the store not failing, answers 404 and
\* leaves the log as it was.
C12_DeleteUnknownIs404 ==
    [][\A id \in IdParams :
         (/\ Answers("deleteOne") /\ admin'.id = id
          /\ id # MalformedId /\ ~admin'.storeError
          /\ Holding(id) = {})
         => admin'.code = 404 /\ locations' = locations]_vars

(* --------------------------------- C13 --------------------------------- *)
\* C13: the step that answers DELETE /api/alerts/{id} for the id of a
\* persisted event, the store not failing, answers 200, removes that one
\* event from the log, keeps every other event in place, and leaves the
\* Device State Table as it was.
C13_DeleteRemovesExactlyOne ==
    [][\A id \in IdParams :
         (/\ Answers("deleteOne") /\ admin'.id = id
          /\ ~admin'.storeError
          /\ Holding(id) # {})
         => /\ admin'.code = 200
            /\ \E i \in Holding(id) : locations' = Dropping(i)
            /\ TableUnchanged]_vars

\* two events were persisted, one of them was deleted by its id and the
\* other is still in the log, next to a known device
C13_Witness ==
    /\ admin.op = "deleteOne" /\ admin.code = 200 /\ admin.removed = 1
    /\ Len(locations) >= 1
    /\ Holding(admin.id) = {}
    /\ KnownKeys # {}

(* --------------------------------- C14 --------------------------------- *)
\* C14 as stated: the step that answers DELETE /api/alerts answers 200 and
\* leaves the log empty.
C14_DeleteAllAlways200 ==
    [][Answers("deleteAll") => admin'.code = 200 /\ locations' = <<>>]_vars

\* C14, amended: the step that answers DELETE /api/alerts, the store not
\* failing, answers 200 and leaves the log empty whatever it held; when the
\* store fails the answer is 500 and the log is as it was.
C14_DeleteAllEmptiesLog ==
    [][Answers("deleteAll")
         => IF admin'.storeError
            THEN admin'.code = 500 /\ locations' = locations
            ELSE admin'.code = 200 /\ locations' = <<>>]_vars

\* a log of several events has just been cleared
C14_Witness ==
    /\ admin.op = "deleteAll" /\ admin.code = 200 /\ admin.removed >= 2
    /\ locations = <<>>

(* --------------------------------- C15 --------------------------------- *)
\* the log, latest append first
RECURSIVE Reversed(_)
Reversed(q) == IF q = <<>> THEN <<>> ELSE Append(Reversed(Tail(q)), Head(q))

\* C15: the step that answers GET /api/alerts, the store not failing,
\* returns every persisted event once, count being their number, an event
\* appended later always before an event appended earlier.
C15_AlertsNewestFirst ==
    [][(Answers("getAlerts") /\ ~admin'.storeError)
         => /\ admin'.code = 200
            /\ admin'.count = Len(locations)
            /\ admin'.body = Reversed(locations)]_vars

(* --------------------------------- C16 --------------------------------- *)
\* C16: in a multi-device generation the step that answers GET /api/status
\* answers 200 with one entry per known device, that device's latest state,
\* count being the number of known devices.
C16_StatusListsTable ==
    [][(Answers("getStatus") /\ variant \in MultiVariants)
         => /\ admin'.code = 200
            /\ admin'.count = Cardinality(KnownKeys)
            /\ \A k \in KnownKeys :
                  Cardinality({i \in 1..Len(admin'.body) :
                      admin'.body[i] = latestStatusByDevice[k]}) = 1]_vars

(* --------------------------------- C17 --------------------------------- *)
\* C17: where the route exists, the step that answers
\* GET /api/status/{deviceId} answers 200 with the device's latest state
\* when the Device State Table has an entry for the device and 404 when it
\* has none, and leaves the table as it was.
C17_StatusOfDeviceOr404 ==
    [][\A d \in DeviceIds :
         (Answers("getStatusDevice") /\ admin'.deviceId = d
            /\ DeviceRoutes(variant))
         => /\ IF d \in KnownKeys
               THEN admin'.code = 200
                    /\ admin'.body = <<latestStatusByDevice[d]>>
               ELSE admin'.code = 404 /\ admin'.body = <<>>
            /\ TableUnchanged]_vars

\* the latest state of a device known from a not persisted ingestion was
\* returned while another device is unknown
C17_Witness ==
    /\ DeviceRoutes(variant)
    /\ admin.op = "getStatusDevice" /\ admin.code = 200
    /\ admin.body = <<latestStatusByDevice[admin.deviceId]>>
    /\ \E r \in Requests :
          /\ Accepted(r) /\ reqs[r].saved = 0
          /\ reqs[r].rec = admin.body[1]
    /\ DeviceIds \ KnownKeys # {}

(* --------------------------------- C18 --------------------------------- *)
\* C18: the step that answers GET /api/devices with success lists no
\* device identifier twice and lists every device of the Device State
\* Table together with its latest state.
C18_DevicesListsEveryKnown ==
    [][(Answers("getDevices") /\ admin'.code = 200)
         => LET body == admin'.body
            IN /\ \A i, j \in 1..Len(body) :
                     body[i].deviceId = body[j].deviceId => i = j
               /\ \A k \in KnownKeys :
                     \E i \in 1..Len(body) :
                        /\ body[i].deviceId = k
                        /\ body[i].latestStatus =
                              latestStatusByDevice[k]]_vars

(* --------------------------------- C19 --------------------------------- *)
\* the submission has both fields and enough payload fields to be decoded
WellFormed(r) ==
    /\ Truthy(reqs[r].status) /\ Truthy(reqs[r].payload)
    /\ Len(FieldsOf(r)) >= (IF variant \in MultiVariants THEN 7 ELSE 3)

\* C19: a well-formed ingestion that arrived after the start-up seeding
\* had failed (the connection or a query of it) and has been answered was
\* answered with success, put its record into the Device State Table and
\* broadcast once.
C19_SeedingFailureKeepsServing ==
    \A r \in Requests :
        (Answered(r) /\ reqs[r].unseeded /\ WellFormed(r))
        => /\ reqs[r].code = 200
           /\ Ingested(r)
           /\ Len(reqs[r].bcast) = 1

(* --------------------------------- C20 --------------------------------- *)
\* the persisted events that keep this raw payload
EventsKeeping(payload) ==
    {i \in 1..Len(locations) : locations[i].rawPayload = payload}

\* C20: the latest-state record of every accepted ingestion keeps the
\* submitted payload unchanged (as `payload`, and as `rawPayload` where the
\* record has that property), and so does the event the store appended for
\* it.
C20_RawPayloadKept ==
    \A r \in Requests :
        Accepted(r)
        => /\ reqs[r].rec.payload = reqs[r].payload
           /\ reqs[r].rec.rawPayload \in {UNDEF, reqs[r].payload}
           /\ reqs[r].saved = 1 => EventsKeeping(reqs[r].payload) # {}

\* a payload whose latitude does not parse was accepted and persisted, and
\* a STATUS payload was accepted and not persisted
C20_Witness ==
    \E r, q \in Requests :
        /\ Accepted(r) /\ reqs[r].payload = PayloadNaN
        /\ reqs[r].rec.latitude = NaN
        /\ reqs[r].saved = 1
        /\ EventsKeeping(PayloadNaN) # {}
        /\ Accepted(q) /\ ModeOf(q) = <<"STATUS">>
        /\ reqs[q].rec.payload = PayloadStatus
        /\ reqs[q].saved = 0

(* --------------------------------- C21 --------------------------------- *)
\* C21: the broadcast of an ingested record is started without waiting for
\* the store: whenever a request stands at `await save()`, with its append
\* still pending, its record has already been sent to the subscribers.
C21_BroadcastDoesNotWaitForAppend ==
    \A r \in Requests :
        reqs[r].pc = "awaitSave" => Len(reqs[r].bcast) = 1

(* --------------------------------- C22 --------------------------------- *)
\* What the event loop and the driver guarantee about progress:
\*   a submission that was sent arrives and its handler runs;
\*   mongoose.connect settles (the driver's server selection times out);
\*   an operation held back for lack of a connection is rejected (mongoose's
\*   buffering times out).
\* Nothing bounds an operation sent over a live connection: the handlers
\* put no timeout around `await save()`.
Arrive ==
    \E r \in Requests, b \in Bodies(variant), elapsed \in {0, 1} :
        Post(r, b.status, b.payload, elapsed)
ConnectSettles == MongoConnected \/ MongoConnectFailed
BufferTimeout == \E r \in Requests : ~Connected /\ SaveFail(r)

\* the ingestion endpoint and the store under these guarantees
LiveSpec ==
    /\ Init /\ [][Next]_vars
    /\ WF_vars(Arrive) /\ WF_vars(ConnectSettles) /\ WF_vars(BufferTimeout)

\* C22: every ingestion that arrived is eventually answered, also when the
\* store never completes its append.
C22_EveryIngestionAnswered ==
    \A r \in Requests : (reqs[r].pc # "new") ~> (reqs[r].pc = "done")

(* --------------------------------- C23 --------------------------------- *)
\* what is submitted to the generations when some clients send a payload
\* that is not a string
WideBodies(v) ==
    Bodies(v) \cup {Body(<<"EMERGENCY">>, NotAString),
                    Body(<<"STATUS">>, PayloadTwoFields)}

WideNext ==
    \/ \E r \in Requests, b \in WideBodies(variant), elapsed \in {0, 1} :
          Post(r, b.status, b.payload, elapsed)
    \/ StoreNext

\* the ingestion endpoint and the store of every generation, the durable
\* single-device one that knows STATUS included
WideSpec == InitOf(WideVariants) /\ [][WideNext]_vars

\* the request made the decoding fail: its payload is present and is not a
\* string
InternalFailure(r) ==
    /\ reqs[r].pc # "new"
    /\ Truthy(reqs[r].status)
    /\ reqs[r].payload = NotAString

\* C23: an ingestion whose payload is present and not a string is answered
\* with 500, changes neither the Device State Table nor the Event Log
\* Store, is not broadcast, and leaves the process up to take in the next
\* ingestion.
C23_InternalFailureIs500 ==
    \A r \in Requests :
        InternalFailure(r)
        => /\ Answered(r)
           /\ reqs[r].code = 500
           /\ Untouched(r)
           /\ Running

(* --------------------------------- C24 --------------------------------- *)
\* the request was answered by a multi-device generation and its payload
\* is a string of at least seven fields
SevenFields(r) ==
    /\ variant \in MultiVariants
    /\ Answered(r)
    /\ Truthy(reqs[r].status) /\ Truthy(reqs[r].payload)
    /\ IsString(reqs[r].payload)
    /\ Len(FieldsOf(r)) >= 7

\* C24: a payload of seven fields is accepted whatever its mode is, and
\* the mode is carried unchanged into the latest-state record and into the
\* one record that is broadcast for it.
C24_AnyModeAccepted ==
    \A r \in Requests :
        SevenFields(r)
        => /\ reqs[r].code = 200
           /\ reqs[r].rec.status = At(FieldsOf(r), 1)
           /\ Len(reqs[r].bcast) = 1
           /\ reqs[r].bcast[1].status = At(FieldsOf(r), 1)

(* --------------------------------- C25 --------------------------------- *)
\* the sub-parts of the seventh field of the payload
GroupOf(r) == Split(At(FieldsOf(r), 6), ",")

\* C25: in the record decoded from an accepted seven-field payload, uptime
\* is "0" when the seventh field or its first sub-part is empty, and rssi
\* and snr are its second and third sub-parts, "" where there is none.
C25_GroupDefaults ==
    \A r \in Requests :
        (SevenFields(r) /\ Accepted(r))
        => /\ (At(FieldsOf(r), 6) = EMPTY \/ GroupOf(r)[1] = EMPTY)
                => reqs[r].rec.uptime = <<"0">>
           /\ reqs[r].rec.rssi =
                 IF Len(GroupOf(r)) >= 2 THEN GroupOf(r)[2] ELSE EMPTY
           /\ reqs[r].rec.snr =
                 IF Len(GroupOf(r)) >= 3 THEN GroupOf(r)[3] ELSE EMPTY

\* a payload with an empty seventh field and one whose seventh field is
\* ",-80" have both been accepted
C25_Witness ==
    \E r, q \in Requests :
        /\ SevenFields(r) /\ Accepted(r) /\ reqs[r].payload = PayloadNaN
        /\ At(FieldsOf(r), 6) = EMPTY
        /\ reqs[r].rec.uptime = <<"0">>
        /\ SevenFields(q) /\ Accepted(q) /\ reqs[q].payload = PayloadPing
        /\ GroupOf(q) = <<EMPTY, <<"-80">>>>
        /\ reqs[q].rec.uptime = <<"0">>
        /\ reqs[q].rec.rssi = <<"-80">>
        /\ reqs[q].rec.snr = EMPTY

(* --------------------------------- C26 --------------------------------- *)
\* C26: the fields of an accepted seven-field payload are taken by
\* position: device id, mode, latitude, longitude, speed, satellites, and
\* the group of uptime, rssi and snr. The payload
\* "DEV1|EMERGENCY|14.6|120.9|0km/h|7sat|120,-80,9.5" gives deviceId DEV1,
\* mode EMERGENCY, latitude 14.6, longitude 120.9, satellites 7sat, uptime
\* 120, rssi -80 and snr 9.5.
C26_PositionalDecoding ==
    \A r \in Requests :
        (SevenFields(r) /\ Accepted(r))
        => /\ reqs[r].rec.deviceId = FieldsOf(r)[1]
           /\ reqs[r].rec.status = FieldsOf(r)[2]
           /\ FieldsOf(r)[5] # EMPTY => reqs[r].rec.speed = FieldsOf(r)[5]
           /\ FieldsOf(r)[6] # EMPTY
                 => reqs[r].rec.satellites = FieldsOf(r)[6]
           /\ reqs[r].payload = PayloadEmergency
                 => /\ reqs[r].rec.deviceId = <<"DEV1">>
                    /\ reqs[r].rec.status = <<"EMERGENCY">>
                    /\ reqs[r].rec.latitude = "14.6"
                    /\ reqs[r].rec.longitude = "120.9"
                    /\ reqs[r].rec.speed = <<"0", "km/h">>
                    /\ reqs[r].rec.satellites = <<"7", "sat">>
                    /\ reqs[r].rec.uptime = <<"120">>
                    /\ reqs[r].rec.rssi = <<"-80">>
                    /\ reqs[r].rec.snr = <<"9.5">>

\* the payload of the example has been accepted and decoded
C26_Witness ==
    \E r \in Requests :
        /\ SevenFields(r) /\ Accepted(r)
        /\ reqs[r].payload = PayloadEmergency
        /\ reqs[r].rec.latitude = "14.6"
        /\ reqs[r].rec.snr = <<"9.5">>

(* --------------------------------- C27 --------------------------------- *)
\* the record without its ingestion timestamp
Timeless(rec) == [rec EXCEPT !.timestamp = 0]

\* C27: two ingestions of the same payload by a multi-device generation,
\* from whatever states, build latest-state records that agree in every
\* field other than the ingestion timestamp.
C27_DecodingDeterministic ==
    \A r, q \in Requests :
        (/\ variant \in MultiVariants
         /\ Ingested(r) /\ Ingested(q)
         /\ reqs[r].payload = reqs[q].payload)
        => Timeless(reqs[r].rec) = Timeless(reqs[q].rec)

(* --------------------------------- C28 --------------------------------- *)
\* the registry with viewers and receivers, and the command relay
RelayNext ==
    \/ \E c \in ClientIds : Connect(c)
    \/ \E c \in ClientIds : ConnectReceiver(c)
    \/ \E c \in ClientIds : GoStale(c)
    \/ \E c \in ClientIds : BeginClose(c)
    \/ \E c \in ClientIds : Close(c)
    \/ \E deviceId \in DeviceIds : Acknowledge(deviceId)

RelaySpec == Init /\ [][RelayNext]_vars

\* no receiver-role connection is open
NoReceiverOpen ==
    \A c \in ClientIds :
        ~(clients[c].role = "receiver" /\ clients[c].readyState = "OPEN")

\* in this step a command reaches the peer of connection c
CommandDelivered(c) ==
    \E deviceId \in DeviceIds :
        clients'[c].inbox = Append(clients[c].inbox, Command(deviceId))

\* C28: a command relay requested while no receiver-role connection is
\* open is answered with the no-receivers failure (503) and the command is
\* delivered to no connection.
C28_NoReceiversIs503 ==
    [][NoReceiverOpen
       => /\ \A c \in ClientIds : ~CommandDelivered(c)
          /\ (admin' # admin /\ admin'.op = "acknowledge")
                => /\ admin'.code = 503
                   /\ admin'.count = 0
                   /\ clients' = clients]_vars

\* the relay has answered 503 while a viewer is open and the only receiver
\* has closed
C28_Witness ==
    /\ admin.op = "acknowledge" /\ admin.code = 503
    /\ \E c, d \in ClientIds :
          /\ clients[c].role = "viewer" /\ clients[c].readyState = "OPEN"
          /\ ~clients[c].stale
          /\ \A i \in 1..Len(clients[c].inbox) :
                clients[c].inbox[i] \notin {Command(k) : k \in DeviceIds}
          /\ clients[d].role = "receiver"
          /\ clients[d].readyState = "CLOSED"

(* --------------------------------- C29 --------------------------------- *)
\* the entry under key k is the record of an ingestion this process
\* accepted
WrittenByIngestion(k) ==
    \E r \in Requests :
        /\ Accepted(r)
        /\ reqs[r].key = k
        /\ latestStatusByDevice[k] = reqs[r].rec

\* C29: a step of the start-up seeding never replaces an entry of the
\* Device State Table that an ingestion accepted since the process started
\* has written.
C29_SeedingKeepsFresherEntries ==
    [][\A k \in Keys :
         (WrittenByIngestion(k) /\ seed' # seed)
         => latestStatusByDevice'[k] = latestStatusByDevice[k]]_vars

(* --------------------------------- C30 --------------------------------- *)
\* the records the entry under key k can be, each whole: the initial
\* entry, the record of one ingestion, or the entry seeded from one stored
\* event
WholeRecords(k) ==
    {NoRec, WaitingStatus(1)}
    \cup {reqs[r].rec : r \in {q \in Requests : Ingested(q) /\ reqs[q].key = k}}
    \cup {SeededStatus(k, locations[i]) : i \in 1..Len(locations)}
    \cup {SeededStatus(UNDEF, locations[i]) : i \in 1..Len(locations)}

\* C30: every entry of the Device State Table equals, in all its fields,
\* the record of one single ingestion (or one seeded event): an entry never
\* mixes fields of two ingestions.
C30_UpsertIsWhole ==
    \A k \in Keys : latestStatusByDevice[k] \in WholeRecords(k)

\* two ingestions with different records have written the same key, one
\* after the other, and the entry is the record of one of them
C30_Witness ==
    \E r, q \in Requests, k \in Keys :
        /\ r < q
        /\ Ingested(r) /\ Ingested(q)
        /\ reqs[r].key = k /\ reqs[q].key = k
        /\ reqs[r].rec.status # reqs[q].rec.status
        /\ reqs[r].rec.rawPayload # reqs[q].rec.rawPayload
        /\ latestStatusByDevice[k] = reqs[q].rec

(* --------------------------------- C31 --------------------------------- *)
\* the record holds status, payload and timestamp and nothing else
OnlyStatusPayloadTime(rec) ==
    /\ rec.deviceId = UNDEF /\ rec.deviceName = UNDEF
    /\ rec.latitude = NoNum /\ rec.longitude = NoNum
    /\ rec.speed = UNDEF /\ rec.satellites = UNDEF
    /\ rec.uptime = UNDEF /\ rec.rssi = UNDEF /\ rec.snr = UNDEF
    /\ rec.rawPayload = UNDEF /\ rec._id = 0

\* C31: in the single-device generation that special-cases STATUS, a
\* submission whose status is STATUS and whose payload is a non-empty
\* string is accepted whatever the number of fields of the payload; the
\* latest state becomes a record of status, payload and timestamp only, it
\* is broadcast once, and the event log is left as it was.
C31_StatusPingAccepted ==
    [][\A r \in Requests :
         (/\ AnsweredNow(r)
          /\ variant = "mongoStatus"
          /\ reqs'[r].status = <<"STATUS">>
          /\ Truthy(reqs'[r].payload) /\ IsString(reqs'[r].payload))
         => /\ reqs'[r].code = 200
            /\ latestStatusByDevice'[GLOBAL].status = <<"STATUS">>
            /\ latestStatusByDevice'[GLOBAL].payload = reqs'[r].payload
            /\ latestStatusByDevice'[GLOBAL].timestamp = now'
            /\ OnlyStatusPayloadTime(latestStatusByDevice'[GLOBAL])
            /\ reqs'[r].bcast = <<latestStatusByDevice'[GLOBAL]>>
            /\ reqs'[r].saved = 0
            /\ locations' = locations]_vars

\* "DEV1|STATUS", a payload of two fields, has been accepted as a STATUS
\* submission after a full record had been decoded, and the latest state
\* no longer holds a position
C31_Witness ==
    /\ variant = "mongoStatus"
    /\ \E q, r \in Requests :
          /\ q < r
          /\ Ingested(q) /\ reqs[q].rec.latitude = "14.6"
          /\ Accepted(r) /\ reqs[r].status = <<"STATUS">>
          /\ reqs[r].payload = PayloadTwoFields
          /\ Len(reqs[r].bcast) = 1
          /\ latestStatusByDevice[GLOBAL].payload = PayloadTwoFields
          /\ latestStatusByDevice[GLOBAL].latitude = NoNum

(* --------------------------------- C32 --------------------------------- *)
\* this step is one of the two DELETE operations taking events out
DeleteStep ==
    /\ UNCHANGED reqs
    /\ admin'.op \in {"deleteOne", "deleteAll"}
    /\ admin'.removed = Len(locations) - Len(locations')
    /\ admin'.removed > 0

\* C32: the event log is append-only under ingestion: a step of an
\* ingestion keeps every persisted event, in its place and unchanged, and
\* only adds at the end; a step that removes, moves or changes an event is
\* one of the two DELETE operations.
C32_LogAppendOnly ==
    [][/\ reqs' # reqs => IsPrefix(locations, locations')
       /\ ~IsPrefix(locations, locations') => DeleteStep]_vars

\* two ingestions have each appended an event and both events are in the
\* log, after an earlier delete took an event out
C32_Witness ==
    /\ \E r, q \in Requests :
          r < q /\ reqs[r].saved = 1 /\ reqs[q].saved = 1
    /\ Len(locations) >= 2
    /\ locations[1] # locations[2]
    /\ admin.op \in {"deleteOne", "deleteAll"} /\ admin.removed > 0

(* --------------------------------- C33 --------------------------------- *)
\* ingestions, the store, subscribers that connect and disconnect, and
\* the two deletes
LifeNext ==
    \/ \E r \in Requests, b \in AdminBodies(variant) :
          Post(r, b.status, b.payload, 0)
    \/ StoreNext
    \/ \E c \in ClientIds : Connect(c)
    \/ \E c \in ClientIds : Close(c)
    \/ \E id \in IdParams, ok \in BOOLEAN : DeleteOne(id, ok)
    \/ \E ok \in BOOLEAN : DeleteAll(ok)

LifeSpec == Init /\ [][LifeNext]_vars

\* C33: an entry of the Device State Table is never removed: a key that
\* has an entry has one after every step, whether an ingestion, a
\* rejection, a delete of one event, a delete of all, a connect or a
\* disconnect.
C33_EntryNeverRemoved ==
    [][\A k \in Keys :
         latestStatusByDevice[k] # NoRec
         => latestStatusByDevice'[k] # NoRec]_vars

\* a device has an entry after all events were deleted and a subscriber
\* has connected and disconnected
C33_Witness ==
    /\ variant \in MultiVariants
    /\ \E k \in DeviceIds : latestStatusByDevice[k] # NoRec
    /\ admin.op = "deleteAll" /\ admin.code = 200 /\ admin.removed > 0
    /\ locations = <<>>
    /\ \E c \in ClientIds : clients[c].readyState = "CLOSED"

(* --------------------------------- C34 --------------------------------- *)
\* request r broadcasts in this step
BroadcastsNow(r) == reqs[r].bcast = <<>> /\ reqs'[r].bcast # <<>>

\* C34: the Subscriber Registry only observes the domain data. A step in
\* which a subscriber connects, goes stale or disconnects leaves the Device
\* State Table and the event log as they were; a step in which a request
\* broadcasts changes them by nothing but that request's own upsert and
\* its own append.
C34_RegistryOnlyObserves ==
    [][/\ (clients' # clients /\ reqs' = reqs)
          => UNCHANGED <<latestStatusByDevice, keyOrder, locations>>
       /\ \A r \in Requests :
             BroadcastsNow(r)
             => /\ \A k \in Keys :
                      latestStatusByDevice'[k]
                         \in {latestStatusByDevice[k], reqs'[r].rec}
                /\ \/ locations' = locations
                   \/ /\ Len(locations') = Len(locations) + 1
                      /\ IsPrefix(locations, locations')
                      /\ locations'[Len(locations')].rawPayload
                            = reqs'[r].payload]_vars

\* a device is known, a subscriber that received its record has
\* disconnected and another is connected
C34_Witness ==
    /\ KnownKeys # {}
    /\ \E r \in Requests : Len(reqs[r].bcast) = 1 /\ reqs[r].pastClosed
    /\ \E c, d \in ClientIds :
          /\ clients[c].readyState = "CLOSED"
          /\ clients[d].readyState = "OPEN" /\ clients[d].inbox # <<>>

(* ------------------------ the browser's views --------------------------- *)
\* JSON has no NaN: JSON.stringify (ws send) and res.json write null for it
JsonNull == "null"

\* a number property after JSON.stringify on the server and JSON.parse (or
\* response.json()) in the browser; a missing property stays missing
JsonNumber(x) == IF x = NaN THEN JsonNull ELSE x

\* one telemetry object as the browser receives it
Json(rec) ==
    [rec EXCEPT !.latitude = JsonNumber(@), !.longitude = JsonNumber(@)]

\* JavaScript truthiness of a number-or-null-or-undefined value
TruthyNumber(x) == x \notin {JsonNull, NoNum, NaN, "0"}

\* ws.onmessage of the live map:
\*   if (data.latitude && data.longitude && data.deviceId) { ...
\*       updated.set(data.deviceId, newMarker) ... }
PlacesMarker(data) ==
    /\ TruthyNumber(data.latitude)
    /\ TruthyNumber(data.longitude)
    /\ Truthy(data.deviceId)

\* the global isNaN(x): Number(null) is 0, Number(undefined) is NaN
IsNaNGlobal(x) == x \in {NaN, NoNum}

\* loadLogs, first pass: a log without latitude or longitude that carries a
\* `payload` is decoded again, latitude and longitude from the second and
\* third field
ProcessLog(log) ==
    IF (log.latitude = NoNum \/ log.longitude = NoNum) /\ Truthy(log.payload)
    THEN LET parts == Split(log.payload, "|")
         IN IF Len(parts) >= 3
            THEN [log EXCEPT !.latitude = ParseFloat(At(parts, 1)),
                             !.longitude = ParseFloat(At(parts, 2))]
            ELSE log
    ELSE log

\* loadLogs, second pass: the filter that "filters out locations without
\* valid latitude/longitude"
ValidLog(log) ==
    /\ log.latitude # NoNum
    /\ log.longitude # NoNum
    /\ ~IsNaNGlobal(log.latitude)
    /\ ~IsNaNGlobal(log.longitude)

\* loadLogs: the logs that the history view lists for one answer of
\* GET /api/alerts
LoadLogs(body) ==
    SelectSeq([i \in 1..Len(body) |-> ProcessLog(Json(body[i]))], ValidLog)

\* submissions with a position that parses and with one that does not
MultiViewBodies ==
    {Body(<<"STATUS">>, PayloadEmergency), Body(<<"STATUS">>, PayloadNaN)}
SingleViewBodies ==
    {Body(<<"EMERGENCY">>, PayloadLegacy),
     Body(<<"EMERGENCY">>, PayloadEmergency)}
ViewBodies(v) ==
    IF v \in MultiVariants THEN MultiViewBodies ELSE SingleViewBodies

\* the endpoint, the store and the route that the history view reads
ViewNext ==
    \/ \E r \in Requests, b \in ViewBodies(variant), elapsed \in {0, 1} :
          Post(r, b.status, b.payload, elapsed)
    \/ StoreNext
    \/ \E ok \in BOOLEAN : GetAlerts(ok)

ViewSpec == Init /\ [][ViewNext]_vars

(* --------------------------------- C35 --------------------------------- *)
\* the position of this object did not parse
Unparsed(rec) == rec.latitude = NaN \/ rec.longitude = NaN

\* C35: a record whose latitude or longitude did not parse has no position
\* for the consumers downstream: the live map places no marker for it when
\* it is broadcast, and the history view does not list it among the logs of
\* an answer of GET /api/alerts (where its coordinate would count as zero).
C35_UnparsedPositionIsAbsent ==
    /\ \A r \in Requests : \A i \in 1..Len(reqs[r].bcast) :
          Unparsed(reqs[r].bcast[i]) => ~PlacesMarker(Json(reqs[r].bcast[i]))
    /\ (admin.op = "getAlerts" /\ admin.code = 200)
       => \A i \in 1..Len(admin.body) :
             Unparsed(admin.body[i])
             => ~ValidLog(ProcessLog(Json(admin.body[i])))

(* --------------------------------- C36 --------------------------------- *)
\* C36: in the in-memory generations the events of the log have pairwise
\* distinct store-assigned ids in every state, whatever ingestions, single
\* deletes and delete-alls came before.
C36_LogIdsDistinct ==
    variant \in MemVariants
    => \A i, j \in 1..Len(locations) :
          i # j => locations[i]._id # locations[j]._id

\* the counter was started again by a delete-all and the log holds two
\* events
C36_Witness ==
    /\ variant \in MemVariants
    /\ admin.op = "deleteAll" /\ admin.code = 200
    /\ Len(locations) = 2

(* --------------------------------- C37 --------------------------------- *)
\* C37: in the in-memory generations an id that the store assigned to one
\* event is never assigned to a second event while the process lives: two
\* different submissions whose events were appended carry different ids,
\* so an id read from an earlier answer names one event only.
C37_IdNeverReassigned ==
    variant \in MemVariants
    => \A r, q \in Requests :
          (r # q /\ reqs[r].saved = 1 /\ reqs[q].saved = 1)
          => reqs[r].alertData._id # reqs[q].alertData._id

(* --------------------------------- C38 --------------------------------- *)
\* the handler of request r decides in this step to persist its event: the
\* in-memory generation appends it, the durable one awaits its save
DecidesToPersist(r) ==
    \/ variant \in MemVariants /\ reqs'[r].saved = 1
    \/ variant \in MongoVariants /\ reqs'[r].pc = "awaitSave"

\* C38: in the multi-device generations the mode is the second field of the
\* payload. A submission is only ingested with a status field present, and
\* then the record it upserts carries the payload's mode, the decision to
\* persist is taken by the payload's mode, and every record that is
\* broadcast carries the mode found in its own payload: the status field of
\* the body takes no part in any of them.
C38_ModeComesFromPayload ==
    [][(variant \in MultiVariants)
       => \A r \in Requests :
             (reqs[r].pc = "new" /\ reqs'[r].pc # "new"
                /\ reqs'[r].rec # NoRec)
             => /\ Truthy(reqs'[r].status)
                /\ reqs'[r].rec.status = At(Split(reqs'[r].payload, "|"), 1)
                /\ latestStatusByDevice'[reqs'[r].key].status
                      = At(Split(reqs'[r].payload, "|"), 1)
                /\ DecidesToPersist(r)
                      = PersistedByPolicy(At(Split(reqs'[r].payload, "|"), 1))
                /\ \A q \in Requests : \A i \in 1..Len(reqs'[q].bcast) :
                      (reqs'[q].bcast[i].status
                         = At(Split(reqs'[q].bcast[i].payload, "|"), 1))]_vars

\* one submission with status STATUS and mode EMERGENCY was persisted and
\* broadcast, another with status EMERGENCY and mode STATUS was ingested and
\* not persisted
C38_Witness ==
    /\ variant \in MultiVariants
    /\ \E r, q \in Requests :
          /\ reqs[r].status = <<"STATUS">>
          /\ reqs[r].rec # NoRec /\ reqs[r].rec.status = <<"EMERGENCY">>
          /\ reqs[r].saved = 1 /\ Len(reqs[r].bcast) = 1
          /\ reqs[q].status = <<"EMERGENCY">>
          /\ reqs[q].rec # NoRec /\ reqs[q].rec.status = <<"STATUS">>
          /\ reqs[q].saved = 0 /\ Len(reqs[q].bcast) = 1

(* ---------------------------- the live map ----------------------------- *)
\* the variables of the server, which the browser leaves alone
server ==
    <<variant, now, latestStatusByDevice, keyOrder, locations,
      locationIdCounter, storeIds, clients, reqs, seed, admin>>

\* the devices that report to the map
MapDevices == {<<"DEV1">>, <<"DEV2">>}

\* the parsed messages that reach a page: a device, a mode and a position
\* that parsed on the server or did not
Messages ==
    {[deviceId |-> d, deviceName |-> d, status |-> st, latitude |-> "14.6",
      longitude |-> "120.9"] :
        d \in MapDevices, st \in {<<"EMERGENCY">>, <<"NORMAL">>}}
    \cup {[deviceId |-> <<"DEV2">>, deviceName |-> <<"DEV2">>,
           status |-> <<"EMERGENCY">>, latitude |-> JsonNull,
           longitude |-> "120.9"]}

\* const ws = new WebSocket('wss://seatag.onrender.com') in
\* connectWebSocket of page instance p
NewSocket(p) ==
    Append(sockets, [owner |-> p, readyState |-> "CONNECTING",
                     afterUnmount |-> pages[p].state = "unmounted"])

\* App renders the page: useEffect runs connectWebSocket(). One page is
\* shown at a time; instances are numbered as they are mounted.
Mount(p) ==
    /\ pages[p].state = "none"
    /\ \A q \in PageIds : q < p => pages[q].state # "none"
    /\ \A q \in PageIds : pages[q].state # "mounted"
    /\ Len(sockets) < MaxSockets
    /\ sockets' = NewSocket(p)
    /\ pages' = [pages EXCEPT ![p].state = "mounted",
                              ![p].wsRef = Len(sockets) + 1]
    /\ UNCHANGED server

\* ws.close() of the effect's cleanup: the closing handshake starts
CloseSocket(ws) ==
    IF ws.readyState \in {"CONNECTING", "OPEN"}
    THEN [ws EXCEPT !.readyState = "CLOSING"]
    ELSE ws

\* the page is unmounted: the cleanup of the effect,
\*   if (wsRef.current) wsRef.current.close()
Unmount(p) ==
    /\ pages[p].state = "mounted"
    /\ pages' = [pages EXCEPT ![p].state = "unmounted"]
    /\ sockets' = IF pages[p].wsRef # 0
                  THEN [sockets EXCEPT ![pages[p].wsRef] = CloseSocket(@)]
                  ELSE sockets
    /\ UNCHANGED server

\* ws.onopen
OnOpen(s) ==
    /\ s <= Len(sockets)
    /\ sockets[s].readyState = "CONNECTING"
    /\ sockets' = [sockets EXCEPT ![s].readyState = "OPEN"]
    /\ UNCHANGED <<pages, server>>

\* ws.onclose, after a close of either side or a failed connection:
\*   setTimeout(connectWebSocket, 3000)
OnClose(s) ==
    /\ s <= Len(sockets)
    /\ sockets[s].readyState # "CLOSED"
    /\ sockets' = [sockets EXCEPT ![s].readyState = "CLOSED"]
    /\ pages' = [pages EXCEPT ![sockets[s].owner].timers = @ + 1]
    /\ UNCHANGED server

\* the timer of setTimeout(connectWebSocket, 3000) fires: connectWebSocket()
\* creates a socket and stores it in wsRef.current
ReconnectTimer(p) ==
    /\ pages[p].timers > 0
    /\ Len(sockets) < MaxSockets
    /\ sockets' = NewSocket(p)
    /\ pages' = [pages EXCEPT ![p].timers = @ - 1,
                              ![p].wsRef = Len(sockets) + 1]
    /\ UNCHANGED server

\* ws.onmessage of the page that alerts on status changes only: the marker
\* of the device is set, and the toast and the alarm depend on
\*   statusChanged = data.status !== previousStatusRef.current
\* (`received` and `shownBefore` record the message and the status the
\* device's marker showed before it)
HandleMessage(page, data) ==
    IF PlacesMarker(data)
    THEN LET statusChanged == data.status # page.previousStatus
         IN [page EXCEPT
               !.markers = [@ EXCEPT ![data.deviceId] = data.status],
               !.toast = statusChanged
                         /\ data.status \in {<<"EMERGENCY">>, <<"NORMAL">>,
                                             <<"STATUS">>},
               !.alarm = statusChanged
                         /\ data.status \in {<<"EMERGENCY">>, <<"NORMAL">>},
               !.previousStatus = IF statusChanged THEN data.status ELSE @,
               !.received = data,
               !.shownBefore = page.markers[data.deviceId]]
    ELSE [page EXCEPT !.toast = FALSE, !.alarm = FALSE, !.received = data,
                      !.shownBefore = UNDEF]

OnMessage(s, data) ==
    /\ s <= Len(sockets)
    /\ sockets[s].readyState = "OPEN"
    /\ pages' = [pages EXCEPT ![sockets[s].owner] = HandleMessage(@, data)]
    /\ UNCHANGED <<sockets, server>>

\* the browser: the page is mounted and unmounted, its sockets open, close
\* and reconnect, and messages arrive
PageNext ==
    \/ \E p \in PageIds : Mount(p)
    \/ \E p \in PageIds : Unmount(p)
    \/ \E s \in 1..MaxSockets : OnOpen(s)
    \/ \E s \in 1..MaxSockets : OnClose(s)
    \/ \E p \in PageIds : ReconnectTimer(p)
    \/ \E s \in 1..MaxSockets, data \in Messages : OnMessage(s, data)

\* the pages are served by one generation; nothing of the server moves
PageSpec == InitOf({"memMulti"}) /\ [][PageNext]_vars

(* --------------------------------- C39 --------------------------------- *)
\* the sockets that are open
OpenSockets == {s \in 1..Len(sockets) : sockets[s].readyState = "OPEN"}

\* C39: once the live-map page is unmounted its WebSocket client is closed
\* for good: no socket of an unmounted instance is open, no instance
\* creates a socket after its unmount, and however often the page is
\* mounted and unmounted there are never more open sockets than mounted
\* pages.
C39_UnmountClosesForGood ==
    /\ \A s \in 1..Len(sockets) :
          /\ ~sockets[s].afterUnmount
          /\ pages[sockets[s].owner].state = "unmounted"
             => sockets[s].readyState # "OPEN"
    /\ Cardinality(OpenSockets)
          <= Cardinality({p \in PageIds : pages[p].state = "mounted"})

(* --------------------------------- C40 --------------------------------- *)
\* C40: in the live-map page that alerts on status changes, every EMERGENCY
\* message that places a marker for a device whose marker did not show
\* EMERGENCY before raises the notification and the alarm, whatever device
\* and mode the message before it carried.
C40_NewEmergencyAlerts ==
    \A p \in PageIds :
        (/\ pages[p].received # NoMessage
         /\ PlacesMarker(pages[p].received)
         /\ pages[p].received.status = <<"EMERGENCY">>
         /\ pages[p].shownBefore # <<"EMERGENCY">>)
        => pages[p].toast /\ pages[p].alarm

====
